---- MODULE Spec2Model ----
(***************************************************************************)
(* Highlight/session correlation store of sioyek_ai (database.py) and the  *)
(* ask command that drives it (ask_ai.py).                                 *)
(*                                                                         *)
(* Coordinates are fixed-point integers: one unit is 0.005 document units  *)
(* (Scale units per 1.0), so the exact-match tolerance 1e-2 is 2 units and *)
(* "strictly within tolerance" has the two cases 0 and 1.                  *)
(* None is modelled by 0 for row ids (sqlite rowids start at 1) and by ""  *)
(* for an absent type filter.                                              *)
(***************************************************************************)
EXTENDS Integers, Sequences, FiniteSets, TLC

VARIABLES highlights, sessions, messages, clock, lastOp, prevOp,
          nearQuery, nearResult,
          pc, locals, worker, thread, queue, result, exit, store0,
          reply, conn, schema

nearVars == <<nearQuery, nearResult>>
(* reply: what the last read of the store returned or raised; conn: the    *)
(* adapter's two connections; schema: the tables, columns and indexes of   *)
(* the shared store                                                        *)
adapterVars == <<reply, conn, schema>>
askVars == <<pc, locals, worker, thread, queue, result, exit, store0,
             reply, conn, schema>>
vars == <<highlights, sessions, messages, clock, lastOp, prevOp,
          nearQuery, nearResult,
          pc, locals, worker, thread, queue, result, exit, store0,
          reply, conn, schema>>

----------------------------------------------------------------------------
(* Bounds *)

MaxHighlightId == 3
MaxSessionId == 2
MaxMessageId == 2
MaxNearRows == 2
MaxChunks == 2
MaxRuns == 2

(* Program constants *)

Scale == 200
FindTolerance == 2
None == 0
Inf == -1

Docs == {"abc123", "def456"}
Roles == {"user", "assistant"}

----------------------------------------------------------------------------
(* Rectangles used as selections: RA, RA1, RA2 differ in begin_x by one    *)
(* unit each (0.005), RA3 differs from RA in end_y by one unit, RB is far  *)
(* away, RC is RA selected backwards.                                      *)

Rect(bx, by, ex, ey) == [begin_x |-> bx, begin_y |-> by, end_x |-> ex, end_y |-> ey]

RA == Rect(0, 0, 2000, 400)
RA1 == Rect(1, 0, 2000, 400)
RA2 == Rect(2, 0, 2000, 400)
RA3 == Rect(0, 0, 2000, 401)
RB == Rect(3600, 800, 5000, 1200)
RC == Rect(2000, 400, 0, 0)
(* RE1 and RE2 are at the same Euclidean distance from the point           *)
(* (4000, 200): offsets (1600, 200) and (1400, 800).                       *)
RE1 == Rect(400, 400, 2400, 600)
RE2 == Rect(5400, 1000, 6000, 1200)

Rects == {RA, RA1, RA2, RA3}
LedgerRects == {RA}
LedgerRoles == {"user"}
LedgerDocs == {"abc123"}

----------------------------------------------------------------------------
(* Python builtins *)

Abs(a) == IF a < 0 THEN -a ELSE a
Min(a, b) == IF a <= b THEN a ELSE b
Max(a, b) == IF a >= b THEN a ELSE b

MaxOf(S) == IF S = {} THEN 0 ELSE CHOOSE m \in S : \A n \in S : n <= m

Restrict(f, S) == [k \in S |-> f[k]]

----------------------------------------------------------------------------
(* Highlight rows *)

HighlightRow(doc, desc, type, r, ai) ==
    [document_path |-> doc, desc |-> desc, type |-> type,
     begin_x |-> r.begin_x, begin_y |-> r.begin_y,
     end_x |-> r.end_x, end_y |-> r.end_y, is_ai |-> ai]

(* WHERE clause of find_highlight *)
find_highlight_match_narrow(row, document_path, r, tolerance) ==
    /\ row.document_path = document_path
    /\ Abs(row.begin_x - r.begin_x) < tolerance - 1
    /\ Abs(row.begin_y - r.begin_y) < tolerance - 1
    /\ Abs(row.end_x - r.end_x) < tolerance - 1
    /\ Abs(row.end_y - r.end_y) < tolerance - 1

find_highlight_match_inclusive(row, document_path, r, tolerance) ==
    /\ row.document_path = document_path
    /\ Abs(row.begin_x - r.begin_x) <= tolerance
    /\ Abs(row.begin_y - r.begin_y) <= tolerance
    /\ Abs(row.end_x - r.end_x) <= tolerance
    /\ Abs(row.end_y - r.end_y) <= tolerance

find_highlight_match(row, document_path, r, tolerance) ==
    /\ row.document_path = document_path
    /\ Abs(row.begin_x - r.begin_x) < tolerance
    /\ Abs(row.begin_y - r.begin_y) < tolerance
    /\ Abs(row.end_x - r.end_x) < tolerance
    /\ Abs(row.end_y - r.end_y) < tolerance

MinOf(S) == IF S = {} THEN 0 ELSE CHOOSE m \in S : \A n \in S : m <= n

find_highlight_lowest_id(hl, document_path, r) ==
    MinOf({id \in DOMAIN hl :
             find_highlight_match(hl[id], document_path, r, FindTolerance)})

(* SELECT id ... ORDER BY id DESC LIMIT 1; None when no row matches *)
find_highlight(hl, document_path, r) ==
    MaxOf({id \in DOMAIN hl :
             find_highlight_match(hl[id], document_path, r, FindTolerance)})

(* Row ids the store may assign to a new highlight: greater than every     *)
(* existing id (max+1 for a plain rowid, possibly larger for an            *)
(* AUTOINCREMENT key of the host's table).                                 *)
NewHighlightIds(hl) == (MaxOf(DOMAIN hl) + 1) .. MaxHighlightId

(* insert_highlight: the store after the call and the id it returns, when  *)
(* the store assigns newId to an inserted row.                             *)
insert_highlight_moves_row(hl, document_path, selection_text, highlight_type, r, newId) ==
    LET existing == find_highlight(hl, document_path, r) IN
    IF existing # None
    THEN [hl |-> [hl EXCEPT ![existing] =
                     HighlightRow(document_path, selection_text,
                                  highlight_type, r, TRUE)],
          id |-> existing]
    ELSE [hl |-> [id \in DOMAIN hl \cup {newId} |->
                    IF id = newId
                    THEN HighlightRow(document_path, selection_text,
                                      highlight_type, r, TRUE)
                    ELSE hl[id]],
          id |-> newId]

insert_highlight(hl, document_path, selection_text, highlight_type, r, newId) ==
    LET existing == find_highlight(hl, document_path, r) IN
    IF existing # None
    THEN [hl |-> [hl EXCEPT ![existing].desc = selection_text,
                            ![existing].type = highlight_type,
                            ![existing].is_ai = TRUE],
          id |-> existing]
    ELSE [hl |-> [id \in DOMAIN hl \cup {newId} |->
                    IF id = newId
                    THEN HighlightRow(document_path, selection_text,
                                      highlight_type, r, TRUE)
                    ELSE hl[id]],
          id |-> newId]

(* delete_highlight: DELETE FROM highlights WHERE id = ?, with the         *)
(* ON DELETE CASCADE foreign keys of ai_sessions and ai_messages enforced  *)
(* (PRAGMA foreign_keys = ON).                                             *)
delete_highlight_no_cascade(hl, ss, ms, highlight_id) ==
    [highlights |-> Restrict(hl, DOMAIN hl \ {highlight_id}),
     sessions |-> ss,
     messages |-> ms]

delete_highlight(hl, ss, ms, highlight_id) ==
    LET keptS == {s \in DOMAIN ss : ss[s].highlight_id # highlight_id}
        keptM == {m \in DOMAIN ms : ms[m].session_id \in keptS}
    IN [highlights |-> Restrict(hl, DOMAIN hl \ {highlight_id}),
        sessions |-> Restrict(ss, keptS),
        messages |-> Restrict(ms, keptM)]

(* delete_session: DELETE FROM ai_sessions WHERE id = ?, cascading to      *)
(* ai_messages.                                                            *)
delete_session_keep_messages(ss, ms, session_id) ==
    [sessions |-> Restrict(ss, DOMAIN ss \ {session_id}),
     messages |-> ms]

delete_session(ss, ms, session_id) ==
    LET keptS == DOMAIN ss \ {session_id}
        keptM == {m \in DOMAIN ms : ms[m].session_id \in keptS}
    IN [sessions |-> Restrict(ss, keptS),
        messages |-> Restrict(ms, keptM)]

----------------------------------------------------------------------------
(* Session and message rows *)

(* SQL NULL in a text column *)
Null == "<NULL>"

(* `text or None` and `row[...] or ""` *)
OrNone(text) == IF text = "" THEN Null ELSE text
OrEmpty(value) == IF value = Null THEN "" ELSE value

(* _utc_now: strftime with zero-padded fields of fixed width; the clock is *)
(* a two-digit reading, most significant digit first                       *)
utc_now(c) == <<c \div 10, c % 10>>

(* TEXT comparison of the store (memcmp, then length): a < b *)
RECURSIVE TextLess(_, _)
TextLess(a, b) ==
    IF a = << >> THEN b # << >>
    ELSE IF b = << >> THEN FALSE
    ELSE IF Head(a) # Head(b) THEN Head(a) < Head(b)
    ELSE TextLess(Tail(a), Tail(b))

(* Metadata dictionaries (sets of key/value pairs), Optional in Python *)
NoMetadata == [none |-> TRUE, items |-> {}]
SomeMetadata(items) == [none |-> FALSE, items |-> items]
Dicts == {{}, {<<"title", "t">>}}

(* json.dumps / json.loads on the dictionaries of Dicts *)
json_dumps(items) ==
    IF items = {} THEN "{}"
    ELSE LET kv == CHOOSE kv \in items : TRUE
         IN "{\"" \o kv[1] \o "\": \"" \o kv[2] \o "\"}"

json_loads(text) == CHOOSE items \in Dicts : json_dumps(items) = text

SessionRow(highlight_id, doc, sel, q, preview, context, metadata_json, created, updated) ==
    [highlight_id |-> highlight_id, document_path |-> doc,
     selection_text |-> sel, question |-> q, answer_preview |-> preview,
     context_snippet |-> context, metadata_json |-> metadata_json,
     created_at |-> created, updated_at |-> updated]

MessageRow(session_id, role, content, created) ==
    [session_id |-> session_id, role |-> role, content |-> content,
     created_at |-> created]

(* rowid of the next INSERT into a table with INTEGER PRIMARY KEY *)
NextRowId(table) == MaxOf(DOMAIN table) + 1

(* The foreign key of ai_sessions.highlight_id: NULL or a stored highlight *)
SessionForeignKeyOk_unenforced(hl, highlight_id) == TRUE

SessionForeignKeyOk(hl, highlight_id) ==
    highlight_id = None \/ highlight_id \in DOMAIN hl

(* create_session: the INSERT of the new row (answer_preview "", both      *)
(* timestamps the one reading of the clock).                               *)
create_session(ss, highlight_id, doc, sel, q, context_snippet, metadata, timestamp) ==
    LET id == NextRowId(ss)
        metadata_json == json_dumps(IF metadata.none THEN {} ELSE metadata.items)
    IN
    [sessions |-> [s \in DOMAIN ss \cup {id} |->
                     IF s = id
                     THEN SessionRow(highlight_id, doc, sel, q, "",
                                     OrNone(context_snippet), metadata_json,
                                     timestamp, timestamp)
                     ELSE ss[s]],
     id |-> id]

(* insert_message: one new ai_messages row *)
insert_message_replace(ms, session_id, role, content, timestamp) ==
    LET id == NextRowId(ms)
        kept == {m \in DOMAIN ms : ms[m].session_id # session_id}
    IN [m \in kept \cup {id} |->
           IF m = id THEN MessageRow(session_id, role, content, timestamp)
           ELSE ms[m]]

insert_message(ms, session_id, role, content, timestamp) ==
    LET id == NextRowId(ms) IN
    [m \in DOMAIN ms \cup {id} |->
        IF m = id THEN MessageRow(session_id, role, content, timestamp)
        ELSE ms[m]]

(* update_session_preview: UPDATE ... WHERE id = ? (no row, no change) *)
update_session_preview_stamp_only(ss, session_id, preview, timestamp) ==
    IF session_id \in DOMAIN ss
    THEN [ss EXCEPT ![session_id].updated_at = timestamp]
    ELSE ss

update_session_preview_no_where(ss, session_id, preview, timestamp) ==
    [s \in DOMAIN ss |-> [ss[s] EXCEPT !.answer_preview = preview,
                                       !.updated_at = timestamp]]

update_session_preview(ss, session_id, preview, timestamp) ==
    IF session_id \in DOMAIN ss
    THEN [ss EXCEPT ![session_id].answer_preview = preview,
                    ![session_id].updated_at = timestamp]
    ELSE ss

----------------------------------------------------------------------------
(* The shared store as the adapter finds it: empty, or holding a highlight *)
(* the host viewer's user made (type "a", is_ai 0).                        *)

EmptyTable == [k \in {} |-> 0]

HostRow(doc, r) == HighlightRow(doc, "h", "a", r, FALSE)

InitHighlights ==
    {EmptyTable} \cup {[id \in {1} |-> HostRow(d, RA)] : d \in Docs}

(* The last adapter call: its name, arguments, return value (ret), whether *)
(* it returned normally (ok), whether it inserted a row (new) and how many *)
(* session and message rows it removed (gone).                             *)
Op(op, doc, rect, id, ret, ok, new) ==
    [op |-> op, doc |-> doc, rect |-> rect, id |-> id, ret |-> ret,
     ok |-> ok, new |-> new, gone |-> <<0, 0>>]

DeleteOp(op, id, ss, ms, ssAfter, msAfter) ==
    [op |-> op, doc |-> "", rect |-> Rect(0, 0, 0, 0), id |-> id, ret |-> 0,
     ok |-> TRUE, new |-> FALSE,
     gone |-> <<Cardinality(DOMAIN ss) - Cardinality(DOMAIN ssAfter),
                Cardinality(DOMAIN ms) - Cardinality(DOMAIN msAfter)>>]

NoRect == Rect(0, 0, 0, 0)

(* The adapter is constructed on an upgraded store and nothing was read   *)
NoReply == [raised |-> "", value |-> << >>]

AllColumns == {"context_snippet", "metadata_json"}

UpgradedSchema ==
    [highlight_columns |-> {"is_ai"}, ai_sessions |-> TRUE,
     session_columns |-> AllColumns,
     ai_messages |-> TRUE,
     indexes |-> {"idx_ai_sessions_document_path", "idx_ai_messages_session_id"}]

OpenConn == [local |-> "open", shared |-> "open", closes |-> 0, late |-> 0]

AdapterIdle ==
    /\ reply = NoReply
    /\ conn = OpenConn
    /\ schema = UpgradedSchema

(* No ask invocation under way *)
AskIdle ==
    /\ pc = "idle"
    /\ locals = [highlight_id |-> 0, session_id |-> 0]
    /\ worker = [pc |-> "idle", buffer |-> "", stop_requested |-> FALSE,
                 stream |-> "none", chunks |-> 0, outcome |-> "none",
                 emitted |-> << >>]
    /\ thread = [state |-> "new", quit |-> FALSE]
    /\ queue = << >>
    /\ result = [text |-> "", error |-> "", cancelled |-> FALSE,
                 completed |-> FALSE]
    /\ exit = [code |-> -1, printed |-> FALSE, closed |-> FALSE]
    /\ store0 = [highlights |-> << >>, sessions |-> << >>, messages |-> << >>]
    /\ AdapterIdle

StoreInit ==
    /\ AskIdle
    /\ highlights \in InitHighlights
    /\ sessions = EmptyTable
    /\ messages = EmptyTable
    /\ clock = 0
    /\ lastOp = Op("init", "", NoRect, None, None, TRUE, FALSE)
    /\ prevOp = Op("init", "", NoRect, None, None, TRUE, FALSE)
    /\ nearQuery = [asked |-> FALSE, doc |-> "", x |-> 0, y |-> 0,
                    tolerance |-> 0, highlight_type |-> "",
                    require_ai |-> FALSE, order |-> << >>]
    /\ nearResult = 0

----------------------------------------------------------------------------
(* Adapter operations as steps of the store *)

InsertHighlight(docs, rects) ==
    \E doc \in docs, r \in rects, newId \in 1 .. MaxHighlightId :
        LET res == insert_highlight(highlights, doc, "s1", "v", r, newId) IN
        /\ find_highlight(highlights, doc, r) = None
              => newId \in NewHighlightIds(highlights)
        /\ find_highlight(highlights, doc, r) # None
              => newId = 1
        /\ highlights' = res.hl
        /\ lastOp' = Op("insert_highlight", doc, r, None, res.id, TRUE,
                        res.id \notin DOMAIN highlights)
        /\ UNCHANGED <<sessions, messages, clock, nearVars, askVars>>

DeleteHighlight ==
    \E h \in 1 .. MaxHighlightId :
        LET res == delete_highlight(highlights, sessions, messages, h) IN
        /\ highlights' = res.highlights
        /\ sessions' = res.sessions
        /\ messages' = res.messages
        /\ lastOp' = DeleteOp("delete_highlight", h, sessions, messages,
                              res.sessions, res.messages)
        /\ UNCHANGED <<clock, nearVars, askVars>>

CreateSession(docs, times) ==
    \E h \in 0 .. MaxHighlightId, doc \in docs, t \in times :
        /\ NextRowId(sessions) <= MaxSessionId
        /\ IF SessionForeignKeyOk(highlights, h)
           THEN LET res == create_session(sessions, h, doc, "s1", "q", "",
                                          NoMetadata, utc_now(t)) IN
                /\ sessions' = res.sessions
                /\ lastOp' = Op("create_session", doc, NoRect, h, res.id, TRUE, TRUE)
           ELSE /\ sessions' = sessions
                /\ lastOp' = Op("create_session", doc, NoRect, h, None, FALSE, FALSE)
        /\ clock' = t
        /\ UNCHANGED <<highlights, messages, nearVars, askVars>>

InsertMessage(roles, times) ==
    \E s \in 1 .. MaxSessionId, role \in roles, t \in times :
        /\ NextRowId(messages) <= MaxMessageId
        /\ IF s \in DOMAIN sessions
           THEN /\ messages' = insert_message(messages, s, role, "r", utc_now(t))
                /\ lastOp' = Op("insert_message", role, NoRect, s,
                                NextRowId(messages), TRUE, TRUE)
           ELSE /\ messages' = messages
                /\ lastOp' = Op("insert_message", role, NoRect, s, None, FALSE, FALSE)
        /\ clock' = t
        /\ UNCHANGED <<highlights, sessions, nearVars, askVars>>

DeleteSession ==
    \E s \in 1 .. MaxSessionId :
        LET res == delete_session(sessions, messages, s) IN
        /\ sessions' = res.sessions
        /\ messages' = res.messages
        /\ lastOp' = DeleteOp("delete_session", s, sessions, messages,
                              res.sessions, res.messages)
        /\ UNCHANGED <<highlights, clock, nearVars, askVars>>

----------------------------------------------------------------------------
(* find_highlight_near *)

(* Ids of the rows SELECTed by list_highlights_for_document *)
DocumentRows(hl, document_path) ==
    {id \in DOMAIN hl : hl[id].document_path = document_path}

(* The SELECT has no ORDER BY: the rows come in any order *)
list_highlights_for_document(hl, document_path) ==
    LET ids == DocumentRows(hl, document_path)
        n == Cardinality(ids)
    IN {order \in [1 .. n -> ids] :
          \A i, j \in 1 .. n : i # j => order[i] # order[j]}

near_filtered_out_ignores_ai(record, highlight_type, require_ai) ==
    highlight_type # "" /\ record.type # highlight_type

(* the two "continue" filters at the head of the loop *)
near_filtered_out(record, highlight_type, require_ai) ==
    \/ highlight_type # "" /\ record.type # highlight_type
    \/ require_ai /\ ~record.is_ai

near_in_y_range_no_gate(record, y, tolerance) == TRUE

near_in_y_range(record, y, tolerance) ==
    LET min_y == Min(record.begin_y, record.end_y)
        max_y == Max(record.begin_y, record.end_y)
    IN min_y - tolerance <= y /\ y <= max_y + tolerance

near_horizontal_penalty(record, x, tolerance) ==
    LET min_x == Min(record.begin_x, record.end_x)
        max_x == Max(record.begin_x, record.end_x)
    IN IF min_x - tolerance <= x /\ x <= max_x + tolerance
       THEN 0
       ELSE Min(Abs(x - min_x), Abs(x - max_x))

near_vertical_penalty(record, y) ==
    LET min_y == Min(record.begin_y, record.end_y)
        max_y == Max(record.begin_y, record.end_y)
    IN IF min_y <= y /\ y <= max_y
       THEN 0
       ELSE Min(Abs(y - min_y), Abs(y - max_y))

near_score_horizontal_only(record, x, y, tolerance) ==
    near_horizontal_penalty(record, x, tolerance)

near_score_swapped(record, x, y, tolerance) ==
    near_vertical_penalty(record, y)
        + near_horizontal_penalty(record, x, tolerance) * 2

near_score(record, x, y, tolerance) ==
    near_vertical_penalty(record, y) * 2
        + near_horizontal_penalty(record, x, tolerance)

(* score < best_score, with best_score initially float("inf") *)
near_improves_or_equal(score, best_score) ==
    best_score = Inf \/ score <= best_score

near_improves(score, best_score) ==
    best_score = Inf \/ score < best_score

(* the for loop over the candidates, from index i on *)
RECURSIVE near_loop(_, _, _, _, _, _, _, _, _, _)
near_loop(hl, candidates, i, best, best_score, x, y, tolerance, highlight_type, require_ai) ==
    IF i > Len(candidates) THEN best
    ELSE LET record == hl[candidates[i]]
             score == near_score(record, x, y, tolerance)
             take == /\ ~near_filtered_out(record, highlight_type, require_ai)
                     /\ near_in_y_range(record, y, tolerance)
                     /\ near_improves(score, best_score)
         IN near_loop(hl, candidates, i + 1,
                      IF take THEN candidates[i] ELSE best,
                      IF take THEN score ELSE best_score,
                      x, y, tolerance, highlight_type, require_ai)

(* find_highlight_near on the rows in the order the store returned them;   *)
(* the result is the id of the record returned, None for None.             *)
find_highlight_near(hl, candidates, x, y, tolerance, highlight_type, require_ai) ==
    near_loop(hl, candidates, 1, None, Inf,
              x, y, tolerance, highlight_type, require_ai)

----------------------------------------------------------------------------
(* Nearest-match queries on stores the host and the tool may have filled   *)

NearRows ==
    {HighlightRow("abc123", "s1", "v", r, TRUE) : r \in {RA, RB, RE1, RE2}}
    \cup {HighlightRow("abc123", "s1", "a", RA, TRUE),
          HighlightRow("abc123", "h", "v", RB, FALSE),
          HighlightRow("abc123", "s1", "v", RC, TRUE),
          HighlightRow("def456", "s1", "v", RB, TRUE)}

NearStores == UNION {[1 .. n -> NearRows] : n \in 0 .. MaxNearRows}

NearPoints == {<<4000, 200>>, <<1000, 1500>>, <<4000, 1000>>}
NearTolerances == {5 * Scale, 40 * Scale}
NearTypeFilters == {"", "v"}

NoQuery ==
    [asked |-> FALSE, doc |-> "", x |-> 0, y |-> 0, tolerance |-> 0,
     highlight_type |-> "", require_ai |-> FALSE, order |-> << >>]

NearIdle == nearQuery = NoQuery /\ nearResult = None

NearInit ==
    /\ AskIdle
    /\ highlights \in NearStores
    /\ sessions = EmptyTable
    /\ messages = EmptyTable
    /\ clock = 0
    /\ lastOp = Op("init", "", NoRect, None, None, TRUE, FALSE)
    /\ prevOp = Op("init", "", NoRect, None, None, TRUE, FALSE)
    /\ NearIdle

FindHighlightNear ==
    /\ ~nearQuery.asked
    /\ \E p \in NearPoints, tolerance \in NearTolerances,
       highlight_type \in NearTypeFilters, require_ai \in BOOLEAN,
       order \in list_highlights_for_document(highlights, "abc123") :
        /\ nearQuery' = [asked |-> TRUE, doc |-> "abc123", x |-> p[1], y |-> p[2],
                         tolerance |-> tolerance,
                         highlight_type |-> highlight_type,
                         require_ai |-> require_ai, order |-> order]
        /\ nearResult' = find_highlight_near(highlights, order, p[1], p[2],
                                             tolerance, highlight_type, require_ai)
        /\ UNCHANGED <<highlights, sessions, messages, clock, lastOp, prevOp, askVars>>

NearNext == FindHighlightNear

SpecNear == NearInit /\ [][NearNext]_vars

----------------------------------------------------------------------------
(* Properties of find_highlight_near, stated on the recorded query         *)

(* The candidate rectangle and the penalties as the specification words    *)
(* them.                                                                   *)
SpanMinX(id) ==
    IF highlights[id].begin_x <= highlights[id].end_x
    THEN highlights[id].begin_x ELSE highlights[id].end_x
SpanMaxX(id) ==
    IF highlights[id].begin_x <= highlights[id].end_x
    THEN highlights[id].end_x ELSE highlights[id].begin_x
SpanMinY(id) ==
    IF highlights[id].begin_y <= highlights[id].end_y
    THEN highlights[id].begin_y ELSE highlights[id].end_y
SpanMaxY(id) ==
    IF highlights[id].begin_y <= highlights[id].end_y
    THEN highlights[id].end_y ELSE highlights[id].begin_y

Dist(a, b) == IF a <= b THEN b - a ELSE a - b
Nearer(p, lo, hi) == IF Dist(p, lo) <= Dist(p, hi) THEN Dist(p, lo) ELSE Dist(p, hi)

OutsideBand(id) ==
    \/ nearQuery.y < SpanMinY(id) - nearQuery.tolerance
    \/ nearQuery.y > SpanMaxY(id) + nearQuery.tolerance

PassesFilters(id) ==
    /\ highlights[id].document_path = nearQuery.doc
    /\ nearQuery.highlight_type = "" \/ highlights[id].type = nearQuery.highlight_type
    /\ nearQuery.require_ai => highlights[id].is_ai

Eligible(id) == PassesFilters(id) /\ ~OutsideBand(id)

HPenalty(id) ==
    IF /\ SpanMinX(id) - nearQuery.tolerance <= nearQuery.x
       /\ nearQuery.x <= SpanMaxX(id) + nearQuery.tolerance
    THEN 0 ELSE Nearer(nearQuery.x, SpanMinX(id), SpanMaxX(id))

VPenalty(id) ==
    IF SpanMinY(id) <= nearQuery.y /\ nearQuery.y <= SpanMaxY(id)
    THEN 0 ELSE Nearer(nearQuery.y, SpanMinY(id), SpanMaxY(id))

CodeScore(id) ==
    near_score(highlights[id], nearQuery.x, nearQuery.y, nearQuery.tolerance)

EligiblePositions ==
    {i \in 1 .. Len(nearQuery.order) : Eligible(nearQuery.order[i])}

(* C7: the record returned is never one whose vertical span is more than   *)
(* the tolerance away from y, wherever x lies.                             *)
C7_VerticalGate ==
    (nearQuery.asked /\ nearResult # None) => ~OutsideBand(nearResult)

(* a candidate that contains x horizontally but is outside the band was    *)
(* passed over                                                             *)
C7_Witness ==
    /\ nearQuery.asked
    /\ \E id \in DOMAIN highlights :
          /\ PassesFilters(id)
          /\ OutsideBand(id)
          /\ SpanMinX(id) <= nearQuery.x /\ nearQuery.x <= SpanMaxX(id)
          /\ nearResult # id
          /\ nearResult # None

(* C8: the record returned is the first, in the order the store returned   *)
(* the rows, of the eligible candidates with the minimum score             *)
(* 2 * vertical_penalty + horizontal_penalty; with A (0, 10) and B (3, 0)  *)
(* at tolerance 5 the scores are 10 and 6 and B is returned.               *)
C8_Scoring ==
    nearQuery.asked =>
      /\ \A i \in EligiblePositions :
            CodeScore(nearQuery.order[i])
               = 2 * VPenalty(nearQuery.order[i]) + HPenalty(nearQuery.order[i])
      /\ \A i \in EligiblePositions :
            (\A j \in EligiblePositions :
                \/ CodeScore(nearQuery.order[i]) < CodeScore(nearQuery.order[j])
                \/ (CodeScore(nearQuery.order[i]) = CodeScore(nearQuery.order[j])
                    /\ i <= j))
            => nearResult = nearQuery.order[i]
      /\ \A a, b \in DOMAIN highlights :
            (/\ nearQuery.tolerance = 5 * Scale
             /\ {nearQuery.order[i] : i \in EligiblePositions} = {a, b}
             /\ VPenalty(a) = 0 /\ HPenalty(a) = 10 * Scale
             /\ VPenalty(b) = 3 * Scale /\ HPenalty(b) = 0)
            => /\ CodeScore(a) = 10 * Scale
               /\ CodeScore(b) = 6 * Scale
               /\ nearResult = b

(* the example of the specification, with A scanned before B *)
C8_Witness ==
    /\ nearQuery.asked
    /\ nearQuery.tolerance = 5 * Scale
    /\ Len(nearQuery.order) = 2
    /\ Eligible(nearQuery.order[1]) /\ Eligible(nearQuery.order[2])
    /\ VPenalty(nearQuery.order[1]) = 0
    /\ HPenalty(nearQuery.order[1]) = 10 * Scale
    /\ VPenalty(nearQuery.order[2]) = 3 * Scale
    /\ HPenalty(nearQuery.order[2]) = 0
    /\ nearResult = nearQuery.order[2]

(* C9: of two eligible candidates at the same Euclidean distance           *)
(* (horizontal_penalty^2 + vertical_penalty^2), the one with the strictly  *)
(* smaller vertical penalty has the strictly smaller score and the other   *)
(* one is not returned.                                                    *)
C9_Weighting ==
    nearQuery.asked =>
      \A i, j \in EligiblePositions :
        LET a == nearQuery.order[i]
            b == nearQuery.order[j]
        IN (/\ HPenalty(a) * HPenalty(a) + VPenalty(a) * VPenalty(a)
                 = HPenalty(b) * HPenalty(b) + VPenalty(b) * VPenalty(b)
            /\ VPenalty(a) < VPenalty(b))
           => (CodeScore(a) < CodeScore(b) /\ nearResult # b)

C9_Witness ==
    /\ nearQuery.asked
    /\ \E i, j \in EligiblePositions :
        LET a == nearQuery.order[i]
            b == nearQuery.order[j]
        IN /\ HPenalty(a) * HPenalty(a) + VPenalty(a) * VPenalty(a)
                 = HPenalty(b) * HPenalty(b) + VPenalty(b) * VPenalty(b)
           /\ VPenalty(a) < VPenalty(b)
           /\ j < i
           /\ nearResult = a

(* C10: None is returned exactly when no row of the document passes the    *)
(* requested filters and the vertical gate; otherwise one of the rows that *)
(* do is returned.                                                         *)
C10_NoneIffNoCandidate ==
    nearQuery.asked =>
      /\ nearResult = None <=> (\A id \in DOMAIN highlights : ~Eligible(id))
      /\ nearResult # None => (nearResult \in DOMAIN highlights /\ Eligible(nearResult))

(* rows of the document exist, every one fails a filter or the gate, one   *)
(* of them only the gate or only the AI filter                             *)
C10_Witness ==
    /\ nearQuery.asked
    /\ nearResult = None
    /\ \E id \in DOMAIN highlights : PassesFilters(id) /\ OutsideBand(id)
    /\ \E id \in DOMAIN highlights :
          /\ highlights[id].document_path = nearQuery.doc
          /\ ~OutsideBand(id)
          /\ nearQuery.require_ai /\ ~highlights[id].is_ai

----------------------------------------------------------------------------
(* The highlight resolver alone: find-or-create and delete on the          *)
(* selections of Rects.                                                    *)

HlInit == StoreInit

(* prevOp keeps the call before the last one *)
HlNext ==
    \/ InsertHighlight(Docs, Rects) /\ prevOp' = lastOp
    \/ DeleteHighlight /\ prevOp' = lastOp

SpecHl == HlInit /\ [][HlNext]_vars

(* All four coordinates strictly within the tolerance 0.01 *)
WithinTolerance(a, b) ==
    /\ Dist(a.begin_x, b.begin_x) < FindTolerance
    /\ Dist(a.begin_y, b.begin_y) < FindTolerance
    /\ Dist(a.end_x, b.end_x) < FindTolerance
    /\ Dist(a.end_y, b.end_y) < FindTolerance

RowCount(hl, doc) == Cardinality({id \in DOMAIN hl : hl[id].document_path = doc})

TwoInserts ==
    /\ lastOp.op = "insert_highlight"
    /\ lastOp'.op = "insert_highlight"
    /\ lastOp'.doc = lastOp.doc
    /\ WithinTolerance(lastOp.rect, lastOp'.rect)

SameHighlight ==
    /\ lastOp'.ret = lastOp.ret
    /\ RowCount(highlights', lastOp.doc) = RowCount(highlights, lastOp.doc)

(* C1 as stated: an insert_highlight followed by one whose coordinates are *)
(* all strictly within 0.01 of the first call's returns the same id and    *)
(* leaves the number of rows of the document unchanged.                    *)
C1_DedupIdempotence == [][TwoInserts => SameHighlight]_vars

(* C1 amended: the same, when the first call inserted a new row.           *)
C1_DedupAfterCreate == [][(TwoInserts /\ lastOp.new) => SameHighlight]_vars

(* the second call, one unit away from the row the first call created,     *)
(* found it although an older row also matched                             *)
C1_Witness ==
    /\ prevOp.op = "insert_highlight"
    /\ prevOp.new
    /\ lastOp.op = "insert_highlight"
    /\ lastOp.doc = prevOp.doc
    /\ WithinTolerance(prevOp.rect, lastOp.rect)
    /\ lastOp.rect # prevOp.rect
    /\ lastOp.ret = prevOp.ret
    /\ ~lastOp.new
    /\ \E other \in DOMAIN highlights :
          /\ other < lastOp.ret
          /\ highlights[other].document_path = lastOp.doc
          /\ WithinTolerance(highlights[other], lastOp.rect)

(* C2: no two rows of one document have all four coordinates within 0.01  *)
(* of each other.                                                          *)
C2_NoDuplicates ==
    \A a, b \in DOMAIN highlights :
        (a # b /\ highlights[a].document_path = highlights[b].document_path)
        => ~WithinTolerance(highlights[a], highlights[b])

(* a selection within tolerance of a stored row was resolved to that row   *)
(* while the document holds another row exactly at the tolerance           *)
C2_Witness ==
    /\ lastOp.op = "insert_highlight"
    /\ ~lastOp.new
    /\ lastOp.rect.begin_x # highlights[lastOp.ret].begin_x
    /\ RowCount(highlights, lastOp.doc) >= 2

FarFromAll(hl, doc, r) ==
    \A id \in DOMAIN hl :
        hl[id].document_path = doc
        => \/ Dist(hl[id].begin_x, r.begin_x) >= FindTolerance
           \/ Dist(hl[id].begin_y, r.begin_y) >= FindTolerance
           \/ Dist(hl[id].end_x, r.end_x) >= FindTolerance
           \/ Dist(hl[id].end_y, r.end_y) >= FindTolerance

(* C3: a selection that differs from every row of the document by 0.01 or *)
(* more in some coordinate is inserted as a new row under an id no row     *)
(* had; a row of another document is never the one returned.               *)
C3_ToleranceBoundary ==
    [][lastOp'.op = "insert_highlight" =>
        /\ FarFromAll(highlights, lastOp'.doc, lastOp'.rect)
             => /\ lastOp'.ret \notin DOMAIN highlights
                /\ DOMAIN highlights' = DOMAIN highlights \cup {lastOp'.ret}
                /\ highlights'[lastOp'.ret].document_path = lastOp'.doc
                /\ WithinTolerance(highlights'[lastOp'.ret], lastOp'.rect)
                /\ \A id \in DOMAIN highlights : highlights'[id] = highlights[id]
        /\ lastOp'.ret \in DOMAIN highlights
             => highlights[lastOp'.ret].document_path = lastOp'.doc]_vars

(* a new row exactly 0.01 away in begin_x from a row of the document, and  *)
(* a row of another document within tolerance of it                        *)
C3_Witness ==
    /\ lastOp.op = "insert_highlight"
    /\ lastOp.new
    /\ \E id \in DOMAIN highlights :
          /\ highlights[id].document_path = lastOp.doc
          /\ Dist(highlights[id].begin_x, lastOp.rect.begin_x) = FindTolerance
          /\ highlights[id].begin_y = lastOp.rect.begin_y
          /\ highlights[id].end_x = lastOp.rect.end_x
          /\ highlights[id].end_y = lastOp.rect.end_y
    /\ \E id \in DOMAIN highlights :
          /\ highlights[id].document_path # lastOp.doc
          /\ WithinTolerance(highlights[id], lastOp.rect)

----------------------------------------------------------------------------
(* The adapter's highlight, session and message operations together        *)

Init == StoreInit

Next ==
    \/ InsertHighlight(LedgerDocs, LedgerRects) /\ UNCHANGED prevOp
    \/ DeleteHighlight /\ UNCHANGED prevOp
    \/ CreateSession(LedgerDocs, {clock}) /\ UNCHANGED prevOp
    \/ InsertMessage(LedgerRoles, {clock}) /\ UNCHANGED prevOp
    \/ DeleteSession /\ UNCHANGED prevOp

Spec == Init /\ [][Next]_vars

(* C4: delete_highlight(h) removes row h, the sessions of h and the        *)
(* messages of those sessions and nothing else; delete_session(s) removes  *)
(* s and its messages and nothing else.                                    *)
RowsKept(before, after, kept) ==
    /\ DOMAIN after = kept
    /\ \A k \in kept : after[k] = before[k]

C4_Cascade ==
    [][/\ lastOp'.op = "delete_highlight" =>
            LET h == lastOp'.id
                keptSessions == {s \in DOMAIN sessions :
                                    sessions[s].highlight_id # h}
            IN /\ RowsKept(highlights, highlights', DOMAIN highlights \ {h})
               /\ RowsKept(sessions, sessions', keptSessions)
               /\ RowsKept(messages, messages',
                           {m \in DOMAIN messages :
                               messages[m].session_id \in keptSessions})
       /\ lastOp'.op = "delete_session" =>
            LET s == lastOp'.id
            IN /\ highlights' = highlights
               /\ RowsKept(sessions, sessions', DOMAIN sessions \ {s})
               /\ RowsKept(messages, messages',
                           {m \in DOMAIN messages :
                               messages[m].session_id # s})]_vars

(* a highlight owning one session with two messages was deleted; another   *)
(* highlight and its session are still stored                              *)
C4_Witness ==
    /\ lastOp.op = "delete_highlight"
    /\ lastOp.gone = <<1, 2>>
    /\ lastOp.id \notin DOMAIN highlights
    /\ \E s \in DOMAIN sessions :
          /\ sessions[s].highlight_id \in DOMAIN highlights
          /\ sessions[s].highlight_id # lastOp.id

----------------------------------------------------------------------------
(* The ask command with a question: _execute from _create_highlight on,    *)
(* the streaming worker on its thread and the callbacks queued to the main *)
(* thread.  Texts are strings of pieces.                                   *)

AskDoc == "abc123"
AskRects == {RA1, RB}
Pieces == {"", "x"}
ErrorMessages == {"", "e"}

EmptyStore ==
    [highlights |-> EmptyTable, sessions |-> EmptyTable, messages |-> EmptyTable]

(* the store after an earlier, completed question on the selection RA *)
PriorStore ==
    [highlights |-> [id \in {1} |-> HighlightRow(AskDoc, "s1", "v", RA, TRUE)],
     sessions |-> [id \in {1} |->
                     SessionRow(1, AskDoc, "s1", "q", "x", Null, "{}",
                                utc_now(0), utc_now(0))],
     messages |-> [id \in {1, 2} |->
                     IF id = 1 THEN MessageRow(1, "user", "q", utc_now(0))
                     ELSE MessageRow(1, "assistant", "x", utc_now(0))]]

AskStores == {EmptyStore, PriorStore}

AskInit ==
    /\ \E st \in AskStores :
          /\ highlights = st.highlights
          /\ sessions = st.sessions
          /\ messages = st.messages
          /\ store0 = st
    /\ clock = 0
    /\ lastOp = Op("init", "", NoRect, None, None, TRUE, FALSE)
    /\ prevOp = Op("init", "", NoRect, None, None, TRUE, FALSE)
    /\ NearIdle
    /\ pc = "create_highlight"
    /\ locals = [highlight_id |-> 0, session_id |-> 0]
    /\ worker = [pc |-> "idle", buffer |-> "", stop_requested |-> FALSE,
                 stream |-> "none", chunks |-> 0, outcome |-> "none",
                 emitted |-> << >>]
    /\ thread = [state |-> "new", quit |-> FALSE]
    /\ queue = << >>
    /\ result = [text |-> "", error |-> "", cancelled |-> FALSE,
                 completed |-> FALSE]
    /\ exit = [code |-> -1, printed |-> FALSE, closed |-> FALSE]
    /\ AdapterIdle

traceVars == <<lastOp, prevOp, nearQuery, nearResult, store0, clock,
               reply, conn, schema>>

(* except-branch of the try around create_session *)
create_session_failed_no_delete(hl, ss, ms, highlight_id) ==
    [highlights |-> hl, sessions |-> ss, messages |-> ms]

create_session_failed(hl, ss, ms, highlight_id) ==
    IF highlight_id # None
    THEN delete_highlight(hl, ss, ms, highlight_id)
    ELSE [highlights |-> hl, sessions |-> ss, messages |-> ms]

(* cleanup_failure: delete_session, then delete_highlight *)
cleanup_failure(hl, ss, ms, session_id, highlight_id) ==
    LET afterSession ==
            IF session_id # None THEN delete_session(ss, ms, session_id)
            ELSE [sessions |-> ss, messages |-> ms]
    IN IF highlight_id # None
       THEN delete_highlight(hl, afterSession.sessions, afterSession.messages,
                             highlight_id)
       ELSE [highlights |-> hl, sessions |-> afterSession.sessions,
             messages |-> afterSession.messages]

(* the store writes of on_finished *)
on_finished_preview_only(ss, ms, session_id, final_text, timestamp) ==
    IF session_id # None /\ final_text # ""
    THEN [sessions |-> update_session_preview(ss, session_id, final_text, timestamp),
          messages |-> ms]
    ELSE [sessions |-> ss, messages |-> ms]

on_finished(ss, ms, session_id, final_text, timestamp) ==
    IF session_id # None /\ final_text # ""
    THEN [sessions |-> update_session_preview(ss, session_id, final_text, timestamp),
          messages |-> insert_message(ms, session_id, "assistant", final_text,
                                      timestamp)]
    ELSE [sessions |-> ss, messages |-> ms]

(* OpenAIStreamWorker.stop *)
stop(w) ==
    [w EXCEPT !.stop_requested = TRUE,
              !.stream = IF w.stream = "open" THEN "closed" ELSE w.stream]

(* the exit code and whether the reply is printed *)
exit_status(res) ==
    IF res.error # "" THEN [code |-> 1, printed |-> FALSE, closed |-> TRUE]
    ELSE IF res.cancelled /\ ~res.completed
         THEN [code |-> 1, printed |-> FALSE, closed |-> TRUE]
         ELSE [code |-> 0, printed |-> res.text # "", closed |-> TRUE]

(* _create_highlight *)
AskCreateHighlight ==
    /\ pc = "create_highlight"
    /\ \/ /\ locals' = [locals EXCEPT !.highlight_id = None]
          /\ UNCHANGED highlights
       \/ \E r \in AskRects, newId \in 1 .. MaxHighlightId :
            LET res == insert_highlight(highlights, AskDoc, "s1", "v", r, newId) IN
            /\ find_highlight(highlights, AskDoc, r) = None
                  => newId \in NewHighlightIds(highlights)
            /\ find_highlight(highlights, AskDoc, r) # None => newId = 1
            /\ highlights' = res.hl
            /\ locals' = [locals EXCEPT !.highlight_id = res.id]
    /\ pc' = "create_session"
    /\ UNCHANGED <<sessions, messages, worker, thread, queue, result, exit,
                   traceVars>>

(* manager.create_session and the compensation when it raises *)
AskCreateSession ==
    /\ pc = "create_session"
    /\ \/ LET res == create_session(sessions, locals.highlight_id, AskDoc,
                                    "s1", "q", "", SomeMetadata({}),
                                    utc_now(clock)) IN
          /\ sessions' = res.sessions
          /\ locals' = [locals EXCEPT !.session_id = res.id]
          /\ pc' = "insert_message"
          /\ UNCHANGED <<highlights, messages, exit>>
       \/ LET res == create_session_failed(highlights, sessions, messages,
                                           locals.highlight_id) IN
          /\ highlights' = res.highlights
          /\ sessions' = res.sessions
          /\ messages' = res.messages
          /\ pc' = "raised"
          /\ exit' = [code |-> 1, printed |-> FALSE, closed |-> TRUE]
          /\ UNCHANGED locals
    /\ UNCHANGED <<worker, thread, queue, result, traceVars>>

(* manager.insert_message(session_id, "user", question_text) *)
AskInsertUserMessage ==
    /\ pc = "insert_message"
    /\ messages' = insert_message(messages, locals.session_id, "user", "q",
                                  utc_now(clock))
    /\ pc' = "start"
    /\ UNCHANGED <<highlights, sessions, locals, worker, thread, queue, result,
                   exit, traceVars>>

(* thread.start() and dialog.exec_() *)
AskStart ==
    /\ pc = "start"
    /\ thread' = [state |-> "running", quit |-> FALSE]
    /\ worker' = [worker EXCEPT !.pc = "create"]
    /\ pc' = "dialog"
    /\ UNCHANGED <<highlights, sessions, messages, locals, queue, result, exit,
                   traceVars>>

(* a queued signal is delivered to its slot while the dialog's event loop  *)
(* runs                                                                    *)
AskDeliver ==
    /\ pc = "dialog"
    /\ thread.state # "aborted"
    /\ queue # << >>
    /\ LET ev == Head(queue) IN
       /\ queue' = Tail(queue)
       /\ \/ /\ ev.sig = "chunk_received"
             /\ result' = [result EXCEPT !.text = ev.text]
             /\ UNCHANGED <<highlights, sessions, messages, thread>>
          \/ /\ ev.sig = "finished"
             /\ result' = [result EXCEPT !.completed = TRUE]
             /\ LET res == on_finished(sessions, messages, locals.session_id,
                                       result.text, utc_now(clock)) IN
                /\ sessions' = res.sessions
                /\ messages' = res.messages
             /\ thread' = [thread EXCEPT !.quit = TRUE]
             /\ UNCHANGED highlights
          \/ /\ ev.sig \in {"failed", "cancelled"}
             /\ result' = IF ev.sig = "failed"
                          THEN [result EXCEPT !.error = ev.text]
                          ELSE [result EXCEPT !.cancelled = TRUE]
             /\ LET res == cleanup_failure(highlights, sessions, messages,
                                           locals.session_id,
                                           locals.highlight_id) IN
                /\ highlights' = res.highlights
                /\ sessions' = res.sessions
                /\ messages' = res.messages
             /\ thread' = [thread EXCEPT !.quit = TRUE]
    /\ UNCHANGED <<pc, locals, worker, exit, traceVars>>

(* the user closes the dialog: request_stop, then exec_ returns *)
AskCloseDialog ==
    /\ pc = "dialog"
    /\ thread.state # "aborted"
    /\ worker' = IF thread.state = "running" THEN stop(worker) ELSE worker
    /\ pc' = "after_exec"
    /\ UNCHANGED <<highlights, sessions, messages, locals, thread, queue,
                   result, exit, traceVars>>

(* if thread.isRunning(): worker.stop(); thread.quit() *)
AskAfterExec ==
    /\ pc = "after_exec"
    /\ thread.state # "aborted"
    /\ IF thread.state = "running"
       THEN /\ worker' = stop(worker)
            /\ thread' = [thread EXCEPT !.quit = TRUE]
       ELSE UNCHANGED <<worker, thread>>
    /\ pc' = "wait"
    /\ UNCHANGED <<highlights, sessions, messages, locals, queue, result, exit,
                   traceVars>>

(* thread.wait() returns, the exit code is computed, manager.close() *)
AskReturn ==
    /\ pc = "wait"
    /\ thread.state = "finished"
    /\ exit' = exit_status(result)
    /\ pc' = "returned"
    /\ UNCHANGED <<highlights, sessions, messages, locals, worker, thread,
                   queue, result, traceVars>>

(* signal.emit(text): recorded in the worker's history and queued to the   *)
(* main thread                                                             *)
Signal(sig, text) == [sig |-> sig, text |-> text]

(* OpenAIStreamWorker.run up to the for loop: the client is constructed    *)
(* before the try block, so an exception of the constructor leaves run     *)
(* without a signal (the binding then prints it and the thread's event     *)
(* loop goes on, or aborts the process); the request is sent inside the    *)
(* try block                                                               *)
WorkerCreate ==
    /\ thread.state = "running"
    /\ worker.pc = "create"
    /\ \/ /\ worker' = [worker EXCEPT !.pc = "iter", !.stream = "open"]
          /\ UNCHANGED <<queue, thread>>
       \/ \E msg \in ErrorMessages :
          /\ worker' = [worker EXCEPT !.pc = "done", !.outcome = "failed",
                                      !.emitted = Append(@, Signal("failed", msg))]
          /\ queue' = Append(queue, Signal("failed", msg))
          /\ UNCHANGED thread
       \/ /\ worker' = [worker EXCEPT !.pc = "done", !.outcome = "raised"]
          /\ \E state \in {"running", "aborted"} :
                thread' = [thread EXCEPT !.state = state]
          /\ UNCHANGED queue
    /\ UNCHANGED <<highlights, sessions, messages, pc, locals, result,
                   exit, traceVars>>

(* one pass of the for loop: a chunk arrived *)
WorkerChunk ==
    /\ thread.state = "running"
    /\ worker.pc = "iter"
    /\ worker.chunks < MaxChunks
    /\ \E piece \in Pieces :
        IF worker.stop_requested
        THEN /\ worker' = [worker EXCEPT !.pc = "done", !.stream = "none",
                                         !.outcome = "cancelled",
                                         !.emitted = Append(@, Signal("cancelled", ""))]
             /\ queue' = Append(queue, Signal("cancelled", ""))
        ELSE IF piece = ""
        THEN /\ worker' = [worker EXCEPT !.chunks = @ + 1]
             /\ UNCHANGED queue
        ELSE /\ worker' = [worker EXCEPT !.chunks = @ + 1,
                                         !.buffer = @ \o piece,
                                         !.emitted = Append(@,
                                             Signal("chunk_received",
                                                    worker.buffer \o piece))]
             /\ queue' = Append(queue, Signal("chunk_received",
                                              worker.buffer \o piece))
    /\ UNCHANGED <<highlights, sessions, messages, pc, locals, thread, result,
                   exit, traceVars>>

(* the stream is exhausted *)
WorkerEnd_direct ==
    /\ thread.state = "running"
    /\ worker.pc = "iter"
    /\ worker' = [worker EXCEPT !.pc = "done", !.stream = "none",
                                !.outcome = "finished"]
    /\ result' = [result EXCEPT !.completed = TRUE]
    /\ LET res == on_finished(sessions, messages, locals.session_id,
                              result.text, utc_now(clock)) IN
       /\ sessions' = res.sessions
       /\ messages' = res.messages
    /\ thread' = [thread EXCEPT !.quit = TRUE]
    /\ UNCHANGED <<highlights, pc, locals, queue, exit, traceVars>>

WorkerEnd ==
    /\ thread.state = "running"
    /\ worker.pc = "iter"
    /\ worker' = [worker EXCEPT !.pc = "done", !.stream = "none",
                                !.outcome = "finished",
                                !.emitted = Append(@, Signal("finished", ""))]
    /\ queue' = Append(queue, Signal("finished", ""))
    /\ UNCHANGED <<highlights, sessions, messages, pc, locals, thread, result,
                   exit, traceVars>>

(* iterating the stream raises *)
WorkerRaise ==
    /\ thread.state = "running"
    /\ worker.pc = "iter"
    /\ \E msg \in ErrorMessages :
        /\ worker' = [worker EXCEPT !.pc = "done", !.stream = "none",
                                    !.outcome = "failed",
                                    !.emitted = Append(@, Signal("failed", msg))]
        /\ queue' = Append(queue, Signal("failed", msg))
    /\ UNCHANGED <<highlights, sessions, messages, pc, locals, thread, result,
                   exit, traceVars>>

(* the thread's event loop exits once run has returned and quit was asked *)
ThreadFinish ==
    /\ thread.state = "running"
    /\ thread.quit
    /\ worker.pc = "done"
    /\ thread' = [thread EXCEPT !.state = "finished"]
    /\ UNCHANGED <<highlights, sessions, messages, pc, locals, worker, queue,
                   result, exit, traceVars>>

AskNext ==
    \/ AskCreateHighlight
    \/ AskCreateSession
    \/ AskInsertUserMessage
    \/ AskStart
    \/ AskDeliver
    \/ AskCloseDialog
    \/ AskAfterExec
    \/ AskReturn
    \/ WorkerCreate
    \/ WorkerChunk
    \/ WorkerEnd
    \/ WorkerRaise
    \/ ThreadFinish

SpecAsk == AskInit /\ [][AskNext]_vars

(* C5: when the invocation has returned and the worker's run ended with    *)
(* failed or cancelled, the session of the question, its messages and the  *)
(* highlight of the selection are not in the store.                        *)
C5_CleanupOnFailure ==
    (pc = "returned" /\ worker.outcome \in {"failed", "cancelled"})
    => /\ locals.session_id \notin DOMAIN sessions
       /\ \A m \in DOMAIN messages : messages[m].session_id # locals.session_id
       /\ locals.highlight_id # None => locals.highlight_id \notin DOMAIN highlights

(* C6: when create_session raised, the highlight the invocation obtained   *)
(* is gone and no session or message row was added.                        *)
C6_Compensation ==
    pc = "raised"
    => /\ locals.highlight_id # None => locals.highlight_id \notin DOMAIN highlights
       /\ \A h \in DOMAIN highlights :
             h \in DOMAIN store0.highlights /\ highlights[h] = store0.highlights[h]
       /\ \A s \in DOMAIN sessions :
             s \in DOMAIN store0.sessions /\ sessions[s] = store0.sessions[s]
       /\ \A m \in DOMAIN messages :
             m \in DOMAIN store0.messages /\ messages[m] = store0.messages[m]

(* create_session raised after insert_highlight had inserted a new row     *)
C6_Witness ==
    /\ pc = "raised"
    /\ locals.highlight_id # None
    /\ locals.highlight_id \notin DOMAIN store0.highlights
    /\ locals.highlight_id \notin DOMAIN highlights

----------------------------------------------------------------------------
(* Reading sessions back                                                   *)

(* a text is truthy in Python when it is neither None nor empty *)
Truthy(text) == text # Null /\ text # ""

(* The SessionSummary built from a fetched row *)
SessionSummary_raw(id, row) ==
    [id |-> id,
     highlight_id |-> row.highlight_id,
     document_path |-> row.document_path,
     created_at |-> row.created_at,
     updated_at |-> row.updated_at,
     selection_text |-> row.selection_text,
     question |-> row.question,
     answer_preview |-> row.answer_preview,
     context_snippet |-> row.context_snippet,
     metadata |-> json_loads(row.metadata_json)]

SessionSummary(id, row) ==
    [id |-> id,
     highlight_id |-> row.highlight_id,
     document_path |-> row.document_path,
     created_at |-> row.created_at,
     updated_at |-> row.updated_at,
     selection_text |-> OrEmpty(row.selection_text),
     question |-> OrEmpty(row.question),
     answer_preview |-> OrEmpty(row.answer_preview),
     context_snippet |-> OrEmpty(row.context_snippet),
     metadata |-> IF Truthy(row.metadata_json)
                  THEN json_loads(row.metadata_json) ELSE {}]

Returned(value) == [raised |-> "", value |-> value]
Raised(error) == [raised |-> error, value |-> << >>]

(* The columns a SessionSummary is built from, and the columns named in    *)
(* the SELECT of get_session_by_highlight                                  *)
SummaryColumns ==
    {"id", "highlight_id", "document_path", "selection_text", "question",
     "answer_preview", "created_at", "updated_at", "context_snippet",
     "metadata_json"}

ByHighlightColumns ==
    {"id", "highlight_id", "document_path", "selection_text", "question",
     "answer_preview", "created_at", "updated_at"}

(* get_session_summary: the summary of the row, ValueError when no row *)
get_session_summary_empty(ss, session_id) ==
    IF session_id \in DOMAIN ss
    THEN Returned(<<SessionSummary(session_id, ss[session_id])>>)
    ELSE Returned(<< >>)

get_session_summary(ss, session_id) ==
    IF session_id \in DOMAIN ss
    THEN Returned(<<SessionSummary(session_id, ss[session_id])>>)
    ELSE Raised("ValueError")

(* Rows that may come first under ORDER BY updated_at DESC *)
LatestUpdated(ss, rows) ==
    {s \in rows : \A t \in rows : ~TextLess(ss[s].updated_at, ss[t].updated_at)}

(* get_session_by_highlight: every reply the call can give.  sqlite3.Row   *)
(* raises IndexError for a key that is not a column of the SELECT.         *)
get_session_by_highlight(ss, highlight_id) ==
    LET rows == {s \in DOMAIN ss : ss[s].highlight_id = highlight_id} IN
    IF rows = {} THEN {Returned(<< >>)}
    ELSE IF ~(SummaryColumns \subseteq ByHighlightColumns)
    THEN {Raised("IndexError")}
    ELSE {Returned(<<SessionSummary(s, ss[s])>>) : s \in LatestUpdated(ss, rows)}

(* All orders of the rows ids in which every row placed before another is  *)
(* paired with it in sorted, the pairs <<first, second>> the ORDER BY      *)
(* clause allows                                                           *)
Orderings(ids, sorted) ==
    LET n == Cardinality(ids) IN
    {order \in [1 .. n -> ids] :
        /\ \A i, j \in 1 .. n : i # j => order[i] # order[j]
        /\ \A i, j \in 1 .. n : i < j => <<order[i], order[j]>> \in sorted}

(* list_sessions_for_document: WHERE document_path = ? ORDER BY            *)
(* updated_at DESC; rows with equal updated_at come in any order           *)
list_sessions_for_document_asc(ss, document_path_hash) ==
    LET ids == {s \in DOMAIN ss : ss[s].document_path = document_path_hash}
        sorted == {<<a, b>> \in ids \X ids : ~TextLess(ss[b].updated_at, ss[a].updated_at)}
    IN {[i \in DOMAIN order |-> SessionSummary(order[i], ss[order[i]])] :
           order \in Orderings(ids, sorted)}

list_sessions_for_document(ss, document_path_hash) ==
    LET ids == {s \in DOMAIN ss : ss[s].document_path = document_path_hash}
        sorted == {<<a, b>> \in ids \X ids : ~TextLess(ss[a].updated_at, ss[b].updated_at)}
    IN {[i \in DOMAIN order |-> SessionSummary(order[i], ss[order[i]])] :
           order \in Orderings(ids, sorted)}

(* get_messages: WHERE session_id = ? ORDER BY created_at ASC; rows with   *)
(* equal created_at come in any order                                      *)
Message(row) == [role |-> row.role, content |-> row.content,
                 created_at |-> row.created_at]

get_messages(ms, session_id) ==
    LET ids == {m \in DOMAIN ms : ms[m].session_id = session_id}
        sorted == {<<a, b>> \in ids \X ids : ~TextLess(ms[b].created_at, ms[a].created_at)}
    IN {[i \in DOMAIN order |-> Message(ms[order[i]])] :
           order \in Orderings(ids, sorted)}

----------------------------------------------------------------------------
(* Sessions of two highlights: created, previewed, deleted and read back   *)

(* the clock reads ClockStart when the adapter is constructed; between two *)
(* calls it stays in the same microsecond or advances to the next reading  *)
ClockStart == 9
ClockReadings == 9 .. 11
Ticks(c) == {c, c + 1} \cap ClockReadings

(* at most this many session rows are ever inserted                        *)
MaxListed == MaxSessionId + 1

SessionInputs ==
    {[highlight_id |-> 1, document_path |-> "abc123", context_snippet |-> "",
      metadata |-> NoMetadata],
     [highlight_id |-> 1, document_path |-> "abc123", context_snippet |-> "c",
      metadata |-> SomeMetadata({<<"title", "t">>})],
     [highlight_id |-> 2, document_path |-> "def456", context_snippet |-> "",
      metadata |-> SomeMetadata({})]}

ListInputs == {in \in SessionInputs : in.context_snippet = ""}

Previews == {"p"}

SessOp(op, id, args) == [op |-> op, id |-> id, args |-> args]

ListInit ==
    /\ AskIdle
    /\ NearIdle
    /\ highlights = [id \in {1, 2} |->
                       HighlightRow(IF id = 1 THEN "abc123" ELSE "def456",
                                    "s1", "v", RA, TRUE)]
    /\ sessions = EmptyTable
    /\ messages = EmptyTable
    /\ clock = ClockStart
    /\ lastOp = SessOp("init", None, << >>)
    /\ prevOp = SessOp("init", None, << >>)

listFrame == <<nearVars, pc, locals, worker, thread, queue, result,
               exit, store0, conn, schema>>

(* create_session: the INSERT (IntegrityError when the highlight is not    *)
(* stored) and the summary read back by get_session_summary                *)
ListCreateSession(inputs, times) ==
    \E in \in inputs, t \in times :
        /\ NextRowId(sessions) <= MaxListed
        /\ clock' = t
        /\ lastOp' = SessOp("create_session", NextRowId(sessions), in)
        /\ IF SessionForeignKeyOk(highlights, in.highlight_id)
           THEN LET res == create_session(sessions, in.highlight_id,
                                          in.document_path, "s1", "q",
                                          in.context_snippet, in.metadata,
                                          utc_now(t)) IN
                /\ sessions' = res.sessions
                /\ reply' = get_session_summary(res.sessions, res.id)
           ELSE /\ sessions' = sessions
                /\ reply' = Raised("IntegrityError")
        /\ UNCHANGED <<highlights, messages, listFrame>>

ListUpdateSessionPreview ==
    \E s \in 1 .. MaxListed, preview \in Previews, t \in Ticks(clock) :
        /\ clock' = t
        /\ sessions' = update_session_preview(sessions, s, preview, utc_now(t))
        /\ lastOp' = SessOp("update_session_preview", s, <<preview>>)
        /\ reply' = NoReply
        /\ UNCHANGED <<highlights, messages, listFrame>>

ListDeleteSession ==
    \E s \in DOMAIN sessions :
        LET res == delete_session(sessions, messages, s) IN
        /\ sessions' = res.sessions
        /\ messages' = res.messages
        /\ lastOp' = SessOp("delete_session", s,
                            DOMAIN sessions \ DOMAIN res.sessions)
        /\ reply' = NoReply
        /\ UNCHANGED <<highlights, clock, listFrame>>

ListDeleteHighlight ==
    \E h \in DOMAIN highlights :
        LET res == delete_highlight(highlights, sessions, messages, h) IN
        /\ highlights' = res.highlights
        /\ sessions' = res.sessions
        /\ messages' = res.messages
        /\ lastOp' = SessOp("delete_highlight", h,
                            DOMAIN sessions \ DOMAIN res.sessions)
        /\ reply' = NoReply
        /\ UNCHANGED <<clock, listFrame>>

GetSessionSummary ==
    \E s \in 1 .. MaxListed :
        /\ reply' = get_session_summary(sessions, s)
        /\ lastOp' = SessOp("get_session_summary", s, << >>)
        /\ UNCHANGED <<highlights, sessions, messages, clock, listFrame>>

GetSessionByHighlight ==
    \E h \in 1 .. 2 :
        /\ reply' \in get_session_by_highlight(sessions, h)
        /\ lastOp' = SessOp("get_session_by_highlight", h, << >>)
        /\ UNCHANGED <<highlights, sessions, messages, clock, listFrame>>

ListSessionsForDocument ==
    \E d \in Docs :
        /\ reply' \in {Returned(list) :
                         list \in list_sessions_for_document(sessions, d)}
        /\ lastOp' = SessOp("list_sessions_for_document", d, << >>)
        /\ UNCHANGED <<highlights, sessions, messages, clock, listFrame>>

(* Sessions are created and previewed while the clock advances, and are   *)
(* looked up by highlight and by document                                  *)
ListNext ==
    \/ ListCreateSession(ListInputs, Ticks(clock)) /\ UNCHANGED prevOp
    \/ ListUpdateSessionPreview /\ UNCHANGED prevOp
    \/ GetSessionByHighlight /\ UNCHANGED prevOp
    \/ ListSessionsForDocument /\ UNCHANGED prevOp

SpecList == ListInit /\ [][ListNext]_vars

(* Sessions are created and deleted, directly or with their highlight, and *)
(* looked up by id                                                         *)
SummaryNext ==
    \/ ListCreateSession(SessionInputs, {clock}) /\ prevOp' = lastOp
    \/ ListDeleteSession /\ prevOp' = lastOp
    \/ ListDeleteHighlight /\ prevOp' = lastOp
    \/ GetSessionSummary /\ prevOp' = lastOp

SpecSummary == ListInit /\ [][SummaryNext]_vars

(* the reading of the clock a stored timestamp was formatted from *)
TimeOf(text) == CHOOSE c \in 0 .. 99 : utc_now(c) = text

SessionsOf(h) == {s \in DOMAIN sessions : sessions[s].highlight_id = h}

(* C11: get_session_by_highlight(h) returns None when no session has       *)
(* highlight_id h, and otherwise returns, without failing, the summary of  *)
(* a session of h with the greatest updated_at, carrying the stored        *)
(* selection text, question, answer preview, context snippet and metadata. *)
C11_ByHighlight ==
    lastOp.op = "get_session_by_highlight"
    => IF SessionsOf(lastOp.id) = {}
       THEN reply = Returned(<< >>)
       ELSE /\ reply.raised = ""
            /\ Len(reply.value) = 1
            /\ reply.value[1].id \in SessionsOf(lastOp.id)
            /\ \A s \in SessionsOf(lastOp.id) :
                  TimeOf(sessions[s].updated_at)
                     <= TimeOf(reply.value[1].updated_at)
            /\ reply.value[1]
                  = SessionSummary(reply.value[1].id, sessions[reply.value[1].id])

DocumentSessions(d) == {s \in DOMAIN sessions : sessions[s].document_path = d}

(* C12: list_sessions_for_document(d) returns exactly the sessions whose   *)
(* document hash is d, each once, in non-increasing order of updated_at.   *)
C12_SessionOrdering ==
    lastOp.op = "list_sessions_for_document"
    => /\ reply.raised = ""
       /\ {reply.value[i].id : i \in DOMAIN reply.value} = DocumentSessions(lastOp.id)
       /\ Len(reply.value) = Cardinality(DocumentSessions(lastOp.id))
       /\ \A i \in DOMAIN reply.value :
             reply.value[i] = SessionSummary(reply.value[i].id,
                                             sessions[reply.value[i].id])
       /\ \A i, j \in DOMAIN reply.value :
             i < j => TimeOf(reply.value[i].updated_at)
                         >= TimeOf(reply.value[j].updated_at)

(* three sessions of the document with updated_at T1 < T2 < T3 are listed  *)
(* T3, T2, T1; the first listed is the session created first, whose        *)
(* preview was updated last, and a session of another document is left out *)
C12_Witness ==
    /\ lastOp.op = "list_sessions_for_document"
    /\ Len(reply.value) = 3
    /\ TimeOf(reply.value[1].updated_at) > TimeOf(reply.value[2].updated_at)
    /\ TimeOf(reply.value[2].updated_at) > TimeOf(reply.value[3].updated_at)
    /\ reply.value[1].id = 1
    /\ reply.value[1].answer_preview = "p"
    /\ TimeOf(reply.value[3].updated_at) = 9
    /\ TimeOf(reply.value[1].updated_at) = 11

(* C15: a create_session that returns inserts exactly one row, under an id *)
(* no session had, with empty answer_preview and created_at = updated_at   *)
(* = the clock reading, and returns the summary of that row with the       *)
(* highlight id, document hash, selection text, question, context snippet  *)
(* and metadata passed in ("" and {} for an empty snippet and no metadata).*)
C15_CreateSession ==
    [][(lastOp'.op = "create_session" /\ reply'.raised = "")
        => LET summary == reply'.value[1]
               in == lastOp'.args
           IN /\ summary.id \notin DOMAIN sessions
              /\ DOMAIN sessions' = DOMAIN sessions \cup {summary.id}
              /\ \A s \in DOMAIN sessions : sessions'[s] = sessions[s]
              /\ sessions'[summary.id].answer_preview = ""
              /\ sessions'[summary.id].created_at = sessions'[summary.id].updated_at
              /\ TimeOf(sessions'[summary.id].created_at) = clock'
              /\ summary.created_at = sessions'[summary.id].created_at
              /\ summary.updated_at = sessions'[summary.id].updated_at
              /\ summary.answer_preview = ""
              /\ summary.highlight_id = in.highlight_id
              /\ summary.document_path = in.document_path
              /\ summary.selection_text = "s1"
              /\ summary.question = "q"
              /\ summary.context_snippet = in.context_snippet
              /\ summary.metadata = IF in.metadata.none THEN {}
                                    ELSE in.metadata.items]_vars

(* a session created without context snippet and metadata, under the id of *)
(* a session deleted before, while another session is stored               *)
C15_Witness ==
    /\ lastOp.op = "create_session"
    /\ reply.raised = ""
    /\ lastOp.args.context_snippet = ""
    /\ lastOp.args.metadata.none
    /\ sessions[lastOp.id].context_snippet = Null
    /\ reply.value[1].id = 2
    /\ 1 \in DOMAIN sessions
    /\ prevOp.op = "delete_session"
    /\ prevOp.id = 2

(* C16: get_session_summary(id) raises ValueError when no session has that *)
(* id and returns the session's summary otherwise; the store is unchanged. *)
C16_SummaryNotFound ==
    [][lastOp'.op = "get_session_summary"
        => /\ UNCHANGED <<highlights, sessions, messages>>
           /\ IF lastOp'.id \in DOMAIN sessions
              THEN reply' = Returned(<<SessionSummary(lastOp'.id,
                                                      sessions[lastOp'.id])>>)
              ELSE reply' = Raised("ValueError")]_vars

(* the id asked for belonged to a session removed with its highlight *)
C16_Witness ==
    /\ lastOp.op = "get_session_summary"
    /\ reply = Raised("ValueError")
    /\ prevOp.op = "delete_highlight"
    /\ lastOp.id \in prevOp.args
    /\ sessions # EmptyTable

----------------------------------------------------------------------------
(* Messages appended to two stored sessions and read back                  *)

MsgSessions ==
    [id \in {1, 2} |->
        SessionRow(1, "abc123", "s1", "q", "", Null, "{}",
                   utc_now(ClockStart), utc_now(ClockStart))]

MsgInit ==
    /\ AskIdle
    /\ NearIdle
    /\ highlights = [id \in {1} |-> HighlightRow("abc123", "s1", "v", RA, TRUE)]
    /\ sessions = MsgSessions
    /\ messages = EmptyTable
    /\ clock = ClockStart
    /\ lastOp = SessOp("init", None, << >>)
    /\ prevOp = SessOp("init", None, << >>)

(* insert_message: the INSERT (IntegrityError when the session is not      *)
(* stored) and the Message returned                                        *)
MsgInsertMessage_touch ==
    \E s \in 1 .. MaxSessionId, role \in Roles, t \in Ticks(clock) :
        /\ NextRowId(messages) <= MaxMessageId
        /\ clock' = t
        /\ lastOp' = SessOp("insert_message", s, <<role, "r">>)
        /\ IF s \in DOMAIN sessions
           THEN /\ messages' = insert_message(messages, s, role, "r", utc_now(t))
                /\ sessions' = [sessions EXCEPT ![s].updated_at = utc_now(t)]
                /\ reply' = Returned(<<Message(messages'[NextRowId(messages)])>>)
           ELSE /\ messages' = messages
                /\ sessions' = sessions
                /\ reply' = Raised("IntegrityError")
        /\ UNCHANGED <<highlights, listFrame>>

MsgInsertMessage ==
    \E s \in 1 .. MaxSessionId, role \in Roles, t \in Ticks(clock) :
        /\ NextRowId(messages) <= MaxMessageId
        /\ clock' = t
        /\ lastOp' = SessOp("insert_message", s, <<role, "r">>)
        /\ IF s \in DOMAIN sessions
           THEN /\ messages' = insert_message(messages, s, role, "r", utc_now(t))
                /\ reply' = Returned(<<Message(messages'[NextRowId(messages)])>>)
           ELSE /\ messages' = messages
                /\ reply' = Raised("IntegrityError")
        /\ UNCHANGED <<highlights, sessions, listFrame>>

GetMessages ==
    \E s \in 1 .. MaxSessionId :
        /\ reply' \in {Returned(list) : list \in get_messages(messages, s)}
        /\ lastOp' = SessOp("get_messages", s, << >>)
        /\ UNCHANGED <<highlights, sessions, messages, clock, listFrame>>

MsgNext ==
    \/ MsgInsertMessage /\ UNCHANGED prevOp
    \/ ListUpdateSessionPreview /\ UNCHANGED prevOp
    \/ GetMessages /\ UNCHANGED prevOp

SpecMsg == MsgInit /\ [][MsgNext]_vars

(* the ids of the messages of session s, in the order they were appended   *)
RECURSIVE Ascending(_)
Ascending(ids) ==
    IF ids = {} THEN << >>
    ELSE <<MinOf(ids)>> \o Ascending(ids \ {MinOf(ids)})

Appended(s) == Ascending({m \in DOMAIN messages : messages[m].session_id = s})

(* C13: get_messages(s) returns exactly the messages of s, in the order    *)
(* they were appended, whatever their roles and also when appends got the  *)
(* same created_at.                                                        *)
C13_MessageOrdering ==
    lastOp.op = "get_messages"
    => /\ reply.raised = ""
       /\ reply.value = [i \in DOMAIN Appended(lastOp.id) |->
                           Message(messages[Appended(lastOp.id)[i]])]

(* C14: an insert_message that returns adds one message row with the       *)
(* session id, role and content passed and leaves every session row as it  *)
(* was; a step that changes the updated_at or answer_preview of a session  *)
(* is an update_session_preview.                                           *)
C14_PreviewIsolation ==
    [][/\ (lastOp'.op = "insert_message" /\ reply'.raised = "")
            => /\ sessions' = sessions
               /\ highlights' = highlights
               /\ \E m \in DOMAIN messages' \ DOMAIN messages :
                     /\ DOMAIN messages' = DOMAIN messages \cup {m}
                     /\ messages'[m].session_id = lastOp'.id
                     /\ messages'[m].role = lastOp'.args[1]
                     /\ messages'[m].content = lastOp'.args[2]
               /\ \A m \in DOMAIN messages : messages'[m] = messages[m]
       /\ (\E s \in DOMAIN sessions \cap DOMAIN sessions' :
              \/ sessions'[s].updated_at # sessions[s].updated_at
              \/ sessions'[s].answer_preview # sessions[s].answer_preview)
            => lastOp'.op = "update_session_preview"]_vars

(* an assistant message was appended, at a later clock reading, to a       *)
(* session whose preview is still empty and whose updated_at is still its  *)
(* created_at                                                              *)
C14_Witness ==
    /\ lastOp.op = "insert_message"
    /\ lastOp.args[1] = "assistant"
    /\ reply.raised = ""
    /\ sessions[lastOp.id].answer_preview = ""
    /\ sessions[lastOp.id].updated_at = sessions[lastOp.id].created_at
    /\ TimeOf(reply.value[1].created_at) > TimeOf(sessions[lastOp.id].updated_at)
    /\ \E s \in DOMAIN sessions : sessions[s].answer_preview = "p"

----------------------------------------------------------------------------
(* One question answered on an empty store: the calls _execute and         *)
(* on_finished make on the adapter, in their order                         *)

(* the selection (100, 200) - (180, 215) *)
RS == Rect(100 * Scale, 200 * Scale, 180 * Scale, 215 * Scale)

Replies == {"This theorem says...", "x", ""}

ScenarioInit ==
    /\ AskIdle
    /\ NearIdle
    /\ highlights = EmptyTable
    /\ sessions = EmptyTable
    /\ messages = EmptyTable
    /\ clock = ClockStart
    /\ lastOp = SessOp("init", None, << >>)
    /\ prevOp = SessOp("init", None, << >>)

scenarioFrame == <<prevOp, nearVars, worker, thread, queue, result, exit,
                   store0, conn, schema>>

ScenarioInsertHighlight ==
    /\ pc = "idle"
    /\ \E newId \in NewHighlightIds(highlights) :
        LET res == insert_highlight(highlights, "abc123", "s1", "v", RS, newId) IN
        /\ highlights' = res.hl
        /\ locals' = [locals EXCEPT !.highlight_id = res.id]
        /\ lastOp' = SessOp("insert_highlight", res.id, << >>)
    /\ pc' = "create_session"
    /\ UNCHANGED <<sessions, messages, clock, reply, scenarioFrame>>

ScenarioCreateSession ==
    /\ pc = "create_session"
    /\ \E t \in Ticks(clock) :
        LET res == create_session(sessions, locals.highlight_id, "abc123",
                                  "s1", "q", "", SomeMetadata({}), utc_now(t)) IN
        /\ clock' = t
        /\ sessions' = res.sessions
        /\ reply' = get_session_summary(res.sessions, res.id)
        /\ locals' = [locals EXCEPT !.session_id = res.id]
        /\ lastOp' = SessOp("create_session", res.id, << >>)
    /\ pc' = "insert_message"
    /\ UNCHANGED <<highlights, messages, scenarioFrame>>

ScenarioInsertMessage ==
    /\ pc = "insert_message"
    /\ \E t \in Ticks(clock), text \in Replies :
        /\ clock' = t
        /\ messages' = insert_message(messages, locals.session_id, "assistant",
                                      text, utc_now(t))
        /\ lastOp' = SessOp("insert_message", locals.session_id, text)
    /\ pc' = "update_session_preview"
    /\ UNCHANGED <<highlights, sessions, locals, reply, scenarioFrame>>

ScenarioUpdatePreview ==
    /\ pc = "update_session_preview"
    /\ \E t \in Ticks(clock) :
        /\ clock' = t
        /\ sessions' = update_session_preview(sessions, locals.session_id,
                                              lastOp.args, utc_now(t))
        /\ lastOp' = SessOp("update_session_preview", locals.session_id,
                            lastOp.args)
    /\ pc' = "list_sessions_for_document"
    /\ UNCHANGED <<highlights, messages, locals, reply, scenarioFrame>>

ScenarioList ==
    /\ pc = "list_sessions_for_document"
    /\ reply' \in {Returned(list) :
                     list \in list_sessions_for_document(sessions, "abc123")}
    /\ lastOp' = SessOp("list_sessions_for_document", "abc123", lastOp.args)
    /\ pc' = "listed"
    /\ UNCHANGED <<highlights, sessions, messages, clock, locals, scenarioFrame>>

ScenarioNext ==
    \/ ScenarioInsertHighlight
    \/ ScenarioCreateSession
    \/ ScenarioInsertMessage
    \/ ScenarioUpdatePreview
    \/ ScenarioList

SpecScenario == ScenarioInit /\ [][ScenarioNext]_vars

(* C17: the highlight gets a new id, the created session has an empty      *)
(* answer_preview, and after the assistant message T and the preview       *)
(* update with T the document lists exactly one session, whose             *)
(* answer_preview is T.                                                    *)
C17_Scenario ==
    /\ pc # "idle"
          => /\ locals.highlight_id # None
             /\ DOMAIN highlights = {locals.highlight_id}
             /\ highlights[locals.highlight_id].document_path = "abc123"
    /\ pc = "insert_message"
          => /\ reply.raised = ""
             /\ reply.value[1].answer_preview = ""
             /\ reply.value[1].highlight_id = locals.highlight_id
    /\ pc = "listed"
          => /\ reply.raised = ""
             /\ Len(reply.value) = 1
             /\ reply.value[1].id = locals.session_id
             /\ reply.value[1].answer_preview = lastOp.args
             /\ \E m \in DOMAIN messages :
                   /\ messages[m].session_id = locals.session_id
                   /\ messages[m].role = "assistant"
                   /\ messages[m].content = lastOp.args

(* the scenario ran to its end with the reply "This theorem says..." *)
C17_Witness ==
    /\ pc = "listed"
    /\ lastOp.args = "This theorem says..."
    /\ Len(reply.value) = 1
    /\ reply.value[1].answer_preview = "This theorem says..."
    /\ TimeOf(reply.value[1].updated_at) > TimeOf(reply.value[1].created_at)

----------------------------------------------------------------------------
(* ensure_schema on the shared store                                       *)

SessionIndex == "idx_ai_sessions_document_path"
MessageIndex == "idx_ai_messages_session_id"

(* ALTER TABLE ... ADD COLUMN: fails for a column the table already has *)
add_column(columns, column) ==
    [columns |-> columns \cup {column}, raised |-> column \in columns]

(* the executescript: CREATE TABLE / INDEX IF NOT EXISTS *)
create_tables(sc) ==
    [sc EXCEPT !.session_columns = IF sc.ai_sessions THEN @ ELSE AllColumns,
               !.ai_sessions = TRUE,
               !.ai_messages = TRUE,
               !.indexes = @ \cup {SessionIndex, MessageIndex}]

(* _ensure_highlight_ai_column *)
ensure_highlight_ai_column_unchecked(sc) ==
    LET r == add_column(sc.highlight_columns, "is_ai") IN
    [schema |-> [sc EXCEPT !.highlight_columns = r.columns],
     raised |-> r.raised]

ensure_highlight_ai_column(sc) ==
    IF "is_ai" \notin sc.highlight_columns
    THEN LET r == add_column(sc.highlight_columns, "is_ai") IN
         [schema |-> [sc EXCEPT !.highlight_columns = r.columns],
          raised |-> r.raised]
    ELSE [schema |-> sc, raised |-> FALSE]

(* _ensure_session_context_columns *)
ensure_session_context_columns(sc) ==
    LET alterations == {c \in AllColumns : c \notin sc.session_columns} IN
    [schema |-> [sc EXCEPT !.session_columns = @ \cup alterations],
     raised |-> \E c \in alterations : add_column(sc.session_columns, c).raised]

ensure_schema(sc) ==
    LET ai == ensure_highlight_ai_column(create_tables(sc)) IN
    IF ai.raised THEN ai ELSE ensure_session_context_columns(ai.schema)

(* The shared store as a run may find it: the host's highlights table,     *)
(* with or without the tables, columns and indexes of earlier runs         *)
StartSchemas ==
    {sc \in [highlight_columns : SUBSET {"is_ai"},
             ai_sessions : BOOLEAN,
             session_columns : SUBSET AllColumns,
             ai_messages : BOOLEAN,
             indexes : SUBSET {SessionIndex, MessageIndex}] :
        /\ ~sc.ai_sessions => sc.session_columns = {}
        /\ SessionIndex \in sc.indexes => sc.ai_sessions
        /\ MessageIndex \in sc.indexes => sc.ai_messages}

(* a session and a message written before the context columns existed *)
OldSessions ==
    [id \in {1} |-> SessionRow(None, "abc123", "s1", "q", "x", Null, Null,
                               utc_now(ClockStart), utc_now(ClockStart))]
OldMessages ==
    [id \in {1} |-> MessageRow(1, "user", "q", utc_now(ClockStart))]

SchemaInit ==
    /\ pc = "idle"
    /\ locals = [highlight_id |-> 0, session_id |-> 0]
    /\ worker = [pc |-> "idle", buffer |-> "", stop_requested |-> FALSE,
                 stream |-> "none", chunks |-> 0, outcome |-> "none",
                 emitted |-> << >>]
    /\ thread = [state |-> "new", quit |-> FALSE]
    /\ queue = << >>
    /\ result = [text |-> "", error |-> "", cancelled |-> FALSE,
                 completed |-> FALSE]
    /\ exit = [code |-> -1, printed |-> FALSE, closed |-> FALSE]
    /\ NearIdle
    /\ schema \in StartSchemas
    /\ store0 = schema
    /\ highlights \in InitHighlights
    /\ sessions \in IF schema.ai_sessions THEN {EmptyTable, OldSessions}
                    ELSE {EmptyTable}
    /\ messages \in IF schema.ai_messages /\ sessions # EmptyTable
                    THEN {EmptyTable, OldMessages} ELSE {EmptyTable}
    /\ clock = ClockStart
    /\ conn = OpenConn
    /\ reply = NoReply
    /\ lastOp = SessOp("connect", 0, << >>)
    /\ prevOp = SessOp("init", None, << >>)

(* one run of ensure_schema; lastOp.id counts the runs *)
EnsureSchema ==
    /\ lastOp.id < MaxRuns
    /\ LET r == ensure_schema(schema) IN
       /\ schema' = r.schema
       /\ reply' = IF r.raised THEN Raised("OperationalError") ELSE NoReply
    /\ lastOp' = SessOp("ensure_schema", lastOp.id + 1, << >>)
    /\ UNCHANGED <<highlights, sessions, messages, clock, prevOp, nearVars,
                   pc, locals, worker, thread, queue, result, exit, store0, conn>>

SchemaNext == EnsureSchema

SpecSchema == SchemaInit /\ [][SchemaNext]_vars

(* C19: a run of ensure_schema does not raise, leaves every highlight,     *)
(* session and message row as it was, yields a schema with both tables,    *)
(* both indexes, is_ai and both context columns, and a further run yields  *)
(* that same schema without raising.                                       *)
C19_SchemaIdempotence ==
    [][lastOp'.op = "ensure_schema"
        => /\ reply'.raised = ""
           /\ UNCHANGED <<highlights, sessions, messages>>
           /\ schema' = UpgradedSchema
           /\ ensure_schema(schema') = [schema |-> schema', raised |-> FALSE]
           /\ lastOp.op = "ensure_schema" => schema' = schema]_vars

(* a second run on a store that started without is_ai and with an          *)
(* ai_sessions table lacking both context columns and holding a session    *)
C19_Witness ==
    /\ lastOp.op = "ensure_schema"
    /\ lastOp.id = 2
    /\ store0.highlight_columns = {}
    /\ store0.ai_sessions
    /\ store0.session_columns = {}
    /\ sessions = OldSessions
    /\ highlights # EmptyTable
    /\ schema = UpgradedSchema

----------------------------------------------------------------------------
(* The adapter's lifetime inside the two commands: _execute of ask_ai with *)
(* and without a question, and main of show_history                        *)

Commands == {"ask", "ask_history", "show_history"}

(* what each command does between the constructor and its return *)
BodySteps(command) ==
    IF command = "ask"
    THEN <<"get_document_hash", "prepare_openai_request", "_create_highlight",
           "create_session", "insert_message", "list_sessions_for_document",
           "dialog.exec_", "thread.wait">>
    ELSE IF command = "ask_history"
    THEN <<"get_document_hash", "_find_session_for_selection",
           "_open_history_window">>
    ELSE <<"get_document_hash", "find_highlight_near",
           "get_session_by_highlight", "_open_history_window">>

(* steps that read or write the store, and steps with a return of their own *)
StoreSteps ==
    {"get_document_hash", "_create_highlight", "create_session",
     "insert_message", "list_sessions_for_document", "dialog.exec_",
     "_find_session_for_selection", "_open_history_window",
     "find_highlight_near", "get_session_by_highlight"}
ReturningSteps == {"prepare_openai_request"}

NoConn == [local |-> "none", shared |-> "none", closes |-> 0, late |-> 0]

(* close(): both connections are closed *)
close(c) == [c EXCEPT !.local = "closed", !.shared = "closed",
                      !.closes = @ + 1]

(* a store operation on the connections *)
use(c) == IF c.shared = "open" /\ c.local = "open" THEN c
          ELSE [c EXCEPT !.late = @ + 1]

(* the schema when ensure_schema is interrupted by an error of the store   *)
(* (database locked): before the script, after it, after the is_ai column  *)
InterruptedSchemas(sc) ==
    {sc, create_tables(sc), ensure_highlight_ai_column(create_tables(sc)).schema}

ConnInit ==
    /\ pc = "construct"
    /\ \E command \in Commands :
          locals = [command |-> command, step |-> 1, manager |-> FALSE]
    /\ worker = [pc |-> "idle", buffer |-> "", stop_requested |-> FALSE,
                 stream |-> "none", chunks |-> 0, outcome |-> "none",
                 emitted |-> << >>]
    /\ thread = [state |-> "new", quit |-> FALSE]
    /\ queue = << >>
    /\ result = [text |-> "", error |-> "", cancelled |-> FALSE,
                 completed |-> FALSE]
    /\ exit = [code |-> -1, printed |-> FALSE, closed |-> FALSE]
    /\ NearIdle
    /\ schema \in StartSchemas
    /\ store0 = schema
    /\ highlights = EmptyTable
    /\ sessions = EmptyTable
    /\ messages = EmptyTable
    /\ clock = ClockStart
    /\ conn = NoConn
    /\ reply = NoReply
    /\ lastOp = SessOp("init", None, << >>)
    /\ prevOp = SessOp("init", None, << >>)

connFrame == <<highlights, sessions, messages, clock, prevOp, nearVars,
               worker, thread, queue, result, store0, reply>>

(* DatabaseManager(local_database, shared_database): the two connects and  *)
(* ensure_schema; the name manager is bound only when it returns           *)
ConnConstruct ==
    /\ pc = "construct"
    /\ \/ /\ conn' = [conn EXCEPT !.local = "open", !.shared = "open"]
          /\ schema' = ensure_schema(schema).schema
          /\ locals' = [locals EXCEPT !.manager = TRUE]
          /\ pc' = "body"
          /\ lastOp' = SessOp("__init__", None, "returned")
       \/ /\ conn' = [conn EXCEPT !.local = "open", !.shared = "open"]
          /\ schema' \in InterruptedSchemas(schema)
          /\ pc' = IF locals.command = "show_history" THEN "except" ELSE "finally"
          /\ lastOp' = SessOp("__init__", None, "ensure_schema raised")
          /\ UNCHANGED locals
       \/ /\ conn' = [conn EXCEPT !.local = "open"]
          /\ pc' = IF locals.command = "show_history" THEN "except" ELSE "finally"
          /\ lastOp' = SessOp("__init__", None, "connect raised")
          /\ UNCHANGED <<schema, locals>>
    /\ UNCHANGED <<exit, connFrame>>

(* one step of the body inside the try: it completes, raises, or returns   *)
ConnStep ==
    /\ pc = "body"
    /\ LET steps == BodySteps(locals.command)
           step == steps[locals.step]
       IN /\ conn' = IF step \in StoreSteps THEN use(conn) ELSE conn
          /\ \/ /\ locals.step < Len(steps)
                /\ locals' = [locals EXCEPT !.step = @ + 1]
                /\ lastOp' = SessOp(step, None, "completed")
                /\ UNCHANGED <<pc, exit>>
             \/ /\ locals.step = Len(steps)
                /\ pc' = "finally"
                /\ exit' = [exit EXCEPT !.code = 0]
                /\ lastOp' = SessOp(step, None, "returned")
                /\ UNCHANGED locals
             \/ /\ step \in ReturningSteps
                /\ pc' = "finally"
                /\ exit' = [exit EXCEPT !.code = 1]
                /\ lastOp' = SessOp(step, None, "returned")
                /\ UNCHANGED locals
             \/ /\ pc' = "finally"
                /\ lastOp' = SessOp(step, None, "raised")
                /\ UNCHANGED <<locals, exit>>
    /\ UNCHANGED <<schema, connFrame>>

(* the finally clause: ask_ai closes the manager when the name is bound,   *)
(* show_history closes the manager it constructed before its try           *)
ConnFinally ==
    /\ pc = "finally"
    /\ conn' = IF locals.manager THEN close(conn) ELSE conn
    /\ pc' = IF exit.code = -1 THEN "except" ELSE "returned"
    /\ exit' = [exit EXCEPT !.closed = locals.manager]
    /\ lastOp' = SessOp("finally", None, lastOp.args)
    /\ UNCHANGED <<schema, locals, connFrame>>

(* the handler of main: the exception is logged and the command exits 1 *)
ConnExcept ==
    /\ pc = "except"
    /\ exit' = [exit EXCEPT !.code = 1]
    /\ pc' = "returned"
    /\ lastOp' = SessOp("except", None, lastOp.args)
    /\ UNCHANGED <<conn, schema, locals, connFrame>>

ConnNext ==
    \/ ConnConstruct
    \/ ConnStep
    \/ ConnFinally
    \/ ConnExcept

SpecConn == ConnInit /\ [][ConnNext]_vars

(* C18: a command that opened both connections has invoked close() exactly *)
(* once when it returns, whatever its exit path, and never uses the store  *)
(* after close().                                                          *)
C18_ConnectionRelease ==
    /\ conn.closes <= 1
    /\ conn.late = 0
    /\ (pc = "returned" /\ conn.local # "none" /\ conn.shared # "none")
          => /\ conn.closes = 1
             /\ conn.local = "closed"
             /\ conn.shared = "closed"

----------------------------------------------------------------------------
(* Steps of OpenAIStreamWorker.run, which executes on the worker thread *)
WorkerStep ==
    /\ worker.pc # "idle"
    /\ \/ worker'.pc # worker.pc
       \/ worker'.chunks # worker.chunks
       \/ worker'.buffer # worker.buffer
       \/ worker'.outcome # worker.outcome

(* C20: a step of the worker's run leaves the store and the result and     *)
(* exit state alone and at most appends one signal to the queue; the store *)
(* and the result change, and a queued signal is taken from the queue,     *)
(* only in steps of the main thread, a signal only inside dialog.exec_().  *)
C20_ThreadConfinement ==
    [][/\ WorkerStep
            => /\ UNCHANGED <<highlights, sessions, messages, result, exit, pc,
                              locals>>
               /\ \/ queue' = queue
                  \/ /\ Len(queue') = Len(queue) + 1
                     /\ SubSeq(queue', 1, Len(queue)) = queue
                     /\ queue'[Len(queue')].sig
                           \in {"chunk_received", "finished", "failed", "cancelled"}
       /\ Len(queue') < Len(queue)
            => /\ ~WorkerStep
               /\ pc = "dialog"
               /\ queue' = Tail(queue)
       /\ (result' # result \/ sessions' # sessions \/ messages' # messages
             \/ highlights' # highlights)
            => ~WorkerStep]_vars

(* on_finished has written the assistant message on the main thread while  *)
(* the worker thread was still running its event loop, and an earlier      *)
(* chunk was delivered before the worker emitted finished                  *)
C20_Witness ==
    /\ pc = "dialog"
    /\ result.completed
    /\ result.text # ""
    /\ thread.state = "running"
    /\ worker.pc = "done"
    /\ \E m \in DOMAIN messages :
          /\ messages[m].role = "assistant"
          /\ messages[m].session_id = locals.session_id
          /\ m \notin DOMAIN store0.messages

----------------------------------------------------------------------------
(* The signals a run of the worker has emitted, in order                   *)

Terminals == {"finished", "failed", "cancelled"}

(* the snapshot emitted last before position i, "" when there is none *)
RECURSIVE SnapshotBefore(_, _)
SnapshotBefore(e, i) ==
    IF i <= 1 THEN ""
    ELSE IF e[i - 1].sig = "chunk_received" THEN e[i - 1].text
    ELSE SnapshotBefore(e, i - 1)

(* the texts a snapshot can be extended by *)
Extensions == {"x", "xx", "xxx", "xxxx"}

(* C21: the snapshots a run emits each extend the one before by a          *)
(* non-empty piece, a terminal signal is the last signal emitted, and a    *)
(* run that has ended has emitted exactly one terminal signal.             *)
C21_StreamShape ==
    LET e == worker.emitted IN
    /\ \A i \in 1 .. Len(e) :
          /\ e[i].sig \in Terminals \cup {"chunk_received"}
          /\ e[i].sig = "chunk_received"
                => \E piece \in Extensions :
                      e[i].text = SnapshotBefore(e, i) \o piece
          /\ e[i].sig \in Terminals => i = Len(e)
    /\ worker.pc = "done"
          => /\ Len(e) >= 1
             /\ e[Len(e)].sig \in Terminals

----------------------------------------------------------------------------
(* Selections resolved on a store in which the host's user has drawn two   *)
(* highlights that lie exactly the tolerance apart                         *)

TieStores ==
    InitHighlights
    \cup {[id \in {1, 2} |-> HostRow(d, IF id = 1 THEN RA ELSE RA2)] : d \in Docs}

TieInit ==
    /\ AskIdle
    /\ highlights \in TieStores
    /\ sessions = EmptyTable
    /\ messages = EmptyTable
    /\ clock = 0
    /\ lastOp = Op("init", "", NoRect, None, None, TRUE, FALSE)
    /\ prevOp = Op("init", "", NoRect, None, None, TRUE, FALSE)
    /\ NearIdle

TieNext == InsertHighlight(Docs, Rects) /\ prevOp' = lastOp

SpecTie == TieInit /\ [][TieNext]_vars

(* the rows of the document within tolerance of the selection r *)
Matching(hl, doc, r) ==
    {id \in DOMAIN hl : hl[id].document_path = doc /\ WithinTolerance(hl[id], r)}

(* C22: when several rows of the document match the selection,             *)
(* insert_highlight returns the highest of their ids, sets that row's      *)
(* description and type to the new values and is_ai to true, and leaves    *)
(* its coordinates, its document and every other row unchanged.            *)
C22_TieBreak ==
    [][(/\ lastOp'.op = "insert_highlight"
        /\ Cardinality(Matching(highlights, lastOp'.doc, lastOp'.rect)) >= 2)
       => LET matching == Matching(highlights, lastOp'.doc, lastOp'.rect)
              id == lastOp'.ret
          IN /\ id \in matching
             /\ \A other \in matching : other <= id
             /\ DOMAIN highlights' = DOMAIN highlights
             /\ highlights'[id].desc = "s1"
             /\ highlights'[id].type = "v"
             /\ highlights'[id].is_ai
             /\ highlights'[id].document_path = highlights[id].document_path
             /\ highlights'[id].begin_x = highlights[id].begin_x
             /\ highlights'[id].begin_y = highlights[id].begin_y
             /\ highlights'[id].end_x = highlights[id].end_x
             /\ highlights'[id].end_y = highlights[id].end_y
             /\ \A other \in DOMAIN highlights \ {id} :
                   highlights'[other] = highlights[other]]_vars

(* a selection between the host's two highlights was resolved to the       *)
(* higher one, which became an AI highlight where it was; the lower one is *)
(* still the host's                                                        *)
C22_Witness ==
    /\ lastOp.op = "insert_highlight"
    /\ ~lastOp.new
    /\ Cardinality(Matching(highlights, lastOp.doc, lastOp.rect)) >= 2
    /\ lastOp.ret = 2
    /\ highlights[2] = HighlightRow(lastOp.doc, "s1", "v", RA2, TRUE)
    /\ lastOp.rect = RA1
    /\ highlights[1] = HostRow(lastOp.doc, RA)
    /\ prevOp.op = "init"

----------------------------------------------------------------------------
(* C23: update_session_preview(s, text) on a stored session s sets its     *)
(* answer_preview to text and its updated_at to the current time and       *)
(* leaves every other column of s, every other session, every message and  *)
(* every highlight unchanged; with a clock that never steps back no        *)
(* session's updated_at is ever before its created_at.                     *)
C23_PreviewFrame ==
    [][/\ (lastOp'.op = "update_session_preview" /\ lastOp'.id \in DOMAIN sessions)
            => LET s == lastOp'.id IN
               /\ DOMAIN sessions' = DOMAIN sessions
               /\ sessions'[s] = [sessions[s] EXCEPT
                                     !.answer_preview = lastOp'.args[1],
                                     !.updated_at = utc_now(clock')]
               /\ sessions'[s].created_at = sessions[s].created_at
               /\ sessions'[s].question = sessions[s].question
               /\ sessions'[s].selection_text = sessions[s].selection_text
               /\ sessions'[s].highlight_id = sessions[s].highlight_id
               /\ sessions'[s].metadata_json = sessions[s].metadata_json
               /\ \A other \in DOMAIN sessions \ {s} :
                     sessions'[other] = sessions[other]
               /\ messages' = messages
               /\ highlights' = highlights
       /\ \A s \in DOMAIN sessions' :
             ~TextLess(sessions'[s].updated_at, sessions'[s].created_at)]_vars

(* the preview of a session with a message was set at a later clock        *)
(* reading, across the change of the leading digit, while the other        *)
(* session still has its empty preview and its first updated_at            *)
C23_Witness ==
    /\ lastOp.op = "update_session_preview"
    /\ lastOp.id \in DOMAIN sessions
    /\ sessions[lastOp.id].answer_preview = "p"
    /\ sessions[lastOp.id].updated_at = utc_now(clock)
    /\ clock > ClockStart
    /\ TextLess(sessions[lastOp.id].created_at, sessions[lastOp.id].updated_at)
    /\ \E m \in DOMAIN messages : messages[m].session_id = lastOp.id
    /\ \E other \in DOMAIN sessions :
          /\ other # lastOp.id
          /\ sessions[other].answer_preview = ""
          /\ sessions[other].updated_at = sessions[other].created_at

----------------------------------------------------------------------------
(* Messages appended to two sessions of one highlight while previews are   *)
(* set and sessions are deleted, directly or with their highlight          *)

AppendNext ==
    \/ MsgInsertMessage /\ UNCHANGED prevOp
    \/ ListUpdateSessionPreview /\ UNCHANGED prevOp
    \/ ListDeleteSession /\ UNCHANGED prevOp
    \/ ListDeleteHighlight /\ UNCHANGED prevOp

SpecAppend == MsgInit /\ [][AppendNext]_vars

(* C24: in every step of the adapter a stored message either stays, with   *)
(* its role, content, created_at and session unchanged, or disappears      *)
(* together with its session and every other message of that session, in   *)
(* a delete_session of that session or a delete_highlight of its           *)
(* highlight.                                                              *)
C24_AppendOnly ==
    [][\A m \in DOMAIN messages :
          IF m \in DOMAIN messages'
          THEN /\ messages'[m].role = messages[m].role
               /\ messages'[m].content = messages[m].content
               /\ messages'[m].created_at = messages[m].created_at
               /\ messages'[m].session_id = messages[m].session_id
          ELSE LET s == messages[m].session_id IN
               /\ s \in DOMAIN sessions
               /\ s \notin DOMAIN sessions'
               /\ \A n \in DOMAIN messages' : messages'[n].session_id # s
               /\ \/ lastOp'.op = "delete_session" /\ lastOp'.id = s
                  \/ /\ lastOp'.op = "delete_highlight"
                     /\ lastOp'.id = sessions[s].highlight_id]_vars

(* a session with two messages was deleted and took both with it, while    *)
(* the message of the other session is still stored as it was appended     *)
C24_Witness ==
    /\ lastOp.op = "delete_session"
    /\ lastOp.id \notin DOMAIN sessions
    /\ \E s \in DOMAIN sessions :
          /\ s # lastOp.id
          /\ \E m \in DOMAIN messages :
                /\ messages[m].session_id = s
                /\ messages[m].content = "r"
    /\ \A m \in DOMAIN messages : messages[m].session_id # lastOp.id
    /\ DOMAIN messages # {}

----------------------------------------------------------------------------
(* Every message belongs to a stored session, every session to a stored    *)
(* highlight or to none                                                    *)
ReferentialIntegrity(hl, ss, ms) ==
    /\ \A m \in DOMAIN ms : ms[m].session_id \in DOMAIN ss
    /\ \A s \in DOMAIN ss :
          ss[s].highlight_id = None \/ ss[s].highlight_id \in DOMAIN hl

(* C25: after every adapter operation every message's session_id is the id *)
(* of a stored session and every session's highlight_id is null or the id  *)
(* of a stored highlight; insert_message with an unknown session id and    *)
(* create_session with an unknown non-null highlight id fail and add no    *)
(* row.                                                                    *)
C25_ReferentialIntegrity ==
    [][/\ ReferentialIntegrity(highlights', sessions', messages')
       /\ (lastOp'.op = "insert_message" /\ lastOp'.id \notin DOMAIN sessions)
            => /\ ~lastOp'.ok
               /\ messages' = messages
               /\ sessions' = sessions
       /\ (/\ lastOp'.op = "create_session"
           /\ lastOp'.id # None
           /\ lastOp'.id \notin DOMAIN highlights)
            => /\ ~lastOp'.ok
               /\ sessions' = sessions
               /\ messages' = messages]_vars

(* create_session was refused for a highlight that is not stored, on a     *)
(* store holding a session without highlight and a message of it           *)
C25_Witness ==
    /\ lastOp.op = "create_session"
    /\ ~lastOp.ok
    /\ lastOp.id # None
    /\ lastOp.id \notin DOMAIN highlights
    /\ \E s \in DOMAIN sessions :
          /\ sessions[s].highlight_id = None
          /\ \E m \in DOMAIN messages : messages[m].session_id = s

----------------------------------------------------------------------------
(* C26: once stop was requested and run is iterating the stream (stop came *)
(* during the iteration, closing the stream, or before the stream          *)
(* existed), run processes no further chunk and ends with the cancelled    *)
(* outcome, not with finished or failed.                                   *)
C26_Cancellation ==
    [][(worker.stop_requested /\ worker.pc = "iter")
          => /\ worker'.buffer = worker.buffer
             /\ worker'.chunks = worker.chunks
             /\ worker'.pc = "done"
                   => /\ worker'.outcome = "cancelled"
                      /\ worker'.emitted
                            = Append(worker.emitted, Signal("cancelled", ""))]_vars

----------------------------------------------------------------------------
(* the rows the store held when the invocation started are still stored *)
Preserved ==
    /\ DOMAIN store0.highlights \subseteq DOMAIN highlights
    /\ DOMAIN store0.sessions \subseteq DOMAIN sessions
    /\ DOMAIN store0.messages \subseteq DOMAIN messages
    /\ \A s \in DOMAIN store0.sessions : sessions[s] = store0.sessions[s]
    /\ \A m \in DOMAIN store0.messages : messages[m] = store0.messages[m]

(* C27: when the invocation has ended after its session creation raised or *)
(* its generation failed or was cancelled, every highlight, session and    *)
(* message the store held before the invocation is still stored.           *)
C27_CompensationScope ==
    (\/ pc = "raised"
     \/ pc = "returned" /\ worker.outcome \in {"failed", "cancelled", "raised"})
    => Preserved

----------------------------------------------------------------------------
(* C28: from the moment on_finished has run with a non-empty final text,   *)
(* the session of the invocation is stored with that text as its           *)
(* answer_preview, an assistant message of the session holds that text,    *)
(* the user's message and the highlight are stored, and this stays so      *)
(* through the closing of the dialog, stop and the end of the thread.      *)
C28_DurableReply ==
    (result.completed /\ result.text # "")
    => /\ locals.session_id \in DOMAIN sessions
       /\ sessions[locals.session_id].answer_preview = result.text
       /\ \E m \in DOMAIN messages :
             /\ messages[m].session_id = locals.session_id
             /\ messages[m].role = "assistant"
             /\ messages[m].content = result.text
       /\ \E m \in DOMAIN messages :
             /\ messages[m].session_id = locals.session_id
             /\ messages[m].role = "user"
       /\ locals.highlight_id # None
             => /\ locals.highlight_id \in DOMAIN highlights
                /\ sessions[locals.session_id].highlight_id = locals.highlight_id

(* the invocation has returned after a reply of two pieces was completed,  *)
(* the dialog was closed while the thread was still running, so stop was   *)
(* called on the worker                                                    *)
C28_Witness ==
    /\ pc = "returned"
    /\ result.completed
    /\ result.text = "xx"
    /\ worker.stop_requested
    /\ thread.state = "finished"
    /\ locals.highlight_id # None

----------------------------------------------------------------------------
(* The clicked point lies inside the rectangle of candidate id, which      *)
(* passes the type and AI-origin filters                                   *)
Contains(id) ==
    /\ PassesFilters(id)
    /\ SpanMinX(id) <= nearQuery.x /\ nearQuery.x <= SpanMaxX(id)
    /\ SpanMinY(id) <= nearQuery.y /\ nearQuery.y <= SpanMaxY(id)

(* y inside the vertical span and x within the tolerance of the horizontal *)
(* span: both penalties are zero                                           *)
ZeroScore(id) ==
    /\ PassesFilters(id)
    /\ SpanMinY(id) <= nearQuery.y /\ nearQuery.y <= SpanMaxY(id)
    /\ SpanMinX(id) - nearQuery.tolerance <= nearQuery.x
    /\ nearQuery.x <= SpanMaxX(id) + nearQuery.tolerance

ZeroScorePositions ==
    {i \in 1 .. Len(nearQuery.order) : ZeroScore(nearQuery.order[i])}

(* C29 as stated: a candidate that is the only one whose rectangle         *)
(* contains the clicked point is the one returned.                         *)
C29_ContainingCandidate ==
    nearQuery.asked =>
      \A id \in DOMAIN highlights :
         (Contains(id) /\ \A other \in DOMAIN highlights \ {id} : ~Contains(other))
         => nearResult = id

(* C29 amended: when a candidate's rectangle contains the clicked point,   *)
(* the record returned is the first, in store order, of the candidates     *)
(* with y inside their vertical span and x within the tolerance of their   *)
(* horizontal span; it is the containing candidate when no other candidate *)
(* is one of these.                                                        *)
C29_ContainingOrAdjacent ==
    nearQuery.asked =>
      \A id \in DOMAIN highlights :
         Contains(id)
         => /\ ZeroScore(id)
            /\ \E i \in ZeroScorePositions :
                  /\ nearResult = nearQuery.order[i]
                  /\ \A j \in ZeroScorePositions : i <= j
            /\ (\A other \in DOMAIN highlights \ {id} : ~ZeroScore(other))
                  => nearResult = id

(* the point is inside the second row of the store only and is returned,   *)
(* the first row passes the filters and the gate but lies beside the point *)
(* by more than the tolerance                                              *)
C29_Witness ==
    /\ nearQuery.asked
    /\ Len(nearQuery.order) = 2
    /\ Contains(nearQuery.order[2])
    /\ ~Contains(nearQuery.order[1])
    /\ Eligible(nearQuery.order[1])
    /\ ~ZeroScore(nearQuery.order[1])
    /\ nearResult = nearQuery.order[2]

----------------------------------------------------------------------------
(* C30: an invocation that has returned from the dialog returns 0 with a   *)
(* printed reply only if on_finished was handled, and returns 1 without a  *)
(* printed reply whenever the worker's run ended as failed or cancelled,   *)
(* also after the dialog was closed when some text had been received.      *)
C30_ExitStatus ==
    pc = "returned"
    => /\ (exit.code = 0 /\ exit.printed) => result.completed
       /\ worker.outcome \in {"failed", "cancelled"}
             => (exit.code = 1 /\ ~exit.printed)

====
